---- MODULE Spec2Model ----
(***************************************************************************)
(* The appointment engine of the Gmail monitor: availabilityService.js     *)
(* (readAvailability, generateSlots, removeBookedSlots, findMatchingSlot), *)
(* the calendar collaborator (getEventsForDateRange, createEvent) and the  *)
(* orchestrator appointmentHandler.js (handleAppointmentEmail and its two  *)
(* flows).                                                                 *)
(*                                                                         *)
(* Time.  A JS Date is modelled by an integer: the minutes of local time   *)
(* since local midnight of epoch day 0, a Monday (2025-05-26).  Day d is   *)
(* the minutes d*1440 .. d*1440+1439.  The week under test is the days     *)
(* 7..13, 2025-06-02 (Monday) to 2025-06-08 (Sunday).  The local zone has  *)
(* no daylight saving (Asia/Kolkata, the zone createEvent names).  The two  *)
(* new Date() calls of one generateSlots call (lines 89 and 115) read the  *)
(* same instant, now.  Comparisons of a Date with now are exact at this    *)
(* resolution, since every slot starts on a whole minute.                  *)
(*                                                                         *)
(* Text.  A time text "HH:MM AM" is the record [hh, mm, period]; a text    *)
(* without the blank and the meridiem has period = Undefined.              *)
(***************************************************************************)
EXTENDS Integers, Sequences, FiniteSets, TLC

VARIABLES
    pc,              \* position of handleAppointmentEmail
    exit,            \* how the call ended: "running", "completed", "caught", "escaped"
    now,             \* new Date(): the evaluation timestamp
    doctorName,      \* config.DOCTOR_NAME || 'Dr Rishabh'
    csv,             \* availability.csv as one readAvailability call finds it
                     \* (SpecRead; Spec draws the file anew at each read)
    availability,    \* result of readAvailability
    csvReads,        \* number of readAvailability calls of this run
    calendar,        \* the events on the external calendar
    aiAnswer,        \* what the model call of classifyAppointmentIntent did
    intent,          \* result of classifyAppointmentIntent
    requestedSlots,  \* result of extractBookingSlots (<<>> for null)
    allSlots,        \* result of generateSlots
    readState,       \* calendar read of this run: "none", "ok", "failed"
    reads,           \* number of getEventsForDateRange calls of this run
    readRange,       \* <<timeMin, timeMax>> of the calendar read
    calAtRead,       \* the calendar's events when it was read
    calendarEvents,  \* what getEventsForDateRange returned
    availableSlots,  \* the in-memory pool
    idx,             \* index of the request the booking loop is at
    bookedSlots,
    failedSlots,
    outcomes,        \* per processed request: "booked", "writeFailed", "noMatch"
    writes,          \* every createEvent call: [startTime, endTime, ok]
    replies,         \* every sendReply call: the reply and sendEmail's result
    flows,           \* SpecConcurrent: the state of each of the BookingFlow
                     \* invocations that run at the same time, by sender
    history,         \* SpecRepeat: the calendar's content at the start of
                     \* each invocation begun so far, oldest first
    fetch            \* SpecFetch: the state of a fetchUnseenEmails call

vars == <<pc, exit, now, doctorName, csv, availability, csvReads, calendar, aiAnswer, intent,
          requestedSlots, allSlots, readState, reads, readRange, calAtRead, calendarEvents, availableSlots,
          idx, bookedSlots, failedSlots, outcomes, writes, replies, flows, history, fetch>>

-----------------------------------------------------------------------------
(* Values *)

Null == "null"
Undefined == "undefined"
MinutesPerDay == 24 * 60
MinutesPerHour == MinutesPerDay \div 24

\* The offset of the local zone from UTC, in minutes (Asia/Kolkata, +05:30).
TZOffsetMinutes == 5 * MinutesPerHour + 30

\* null where a slot is expected (findMatchingSlot's "no match").
NullSlot == [day |-> Null, date |-> Null, startTime |-> -1, endTime |-> -1]

\* config.DOCTOR_NAME || 'Dr Rishabh'
DoctorName == "Dr Rishabh"

\* String.prototype.toLowerCase on the texts the model uses; a text with no
\* upper-case letter (a date, a lower-case name) is its own image.
LowerTable ==
    "Monday" :> "monday" @@ "MONDAY" :> "monday" @@
    "Tuesday" :> "tuesday" @@ "Wednesday" :> "wednesday" @@
    "Thursday" :> "thursday" @@ "Friday" :> "friday" @@
    "Saturday" :> "saturday" @@ "Sunday" :> "sunday" @@
    "Dr Rishabh" :> "dr rishabh" @@ "DR RISHABH" :> "dr rishabh" @@
    "Dr Other" :> "dr other"

toLowerCase(s) == IF s \in DOMAIN LowerTable THEN LowerTable[s] ELSE s

\* String.prototype.toUpperCase on a meridiem.
toUpperCase(s) ==
    CASE s \in {"am", "AM"} -> "AM"
      [] s \in {"pm", "PM"} -> "PM"
      [] OTHER -> s

\* Date.prototype.getDay/getHours/getMinutes of a local instant; epoch day 0
\* is a Monday (JS day 1).
DayOf(t) == t \div MinutesPerDay
getDay(t) == (DayOf(t) + 1) % 7
getHours(t) == (t % MinutesPerDay) \div MinutesPerHour
getMinutes(t) == t % MinutesPerHour

\* Date.prototype.setHours(h, m, 0, 0) on a date of day d: h may be 24 or
\* more, and then the result is on a later day.
setHours(d, h, m) == d * MinutesPerDay + h * MinutesPerHour + m

\* Date.prototype.toISOString().split('T')[0]: the UTC calendar date.
ISODates ==
    6 :> "2025-06-01" @@ 7 :> "2025-06-02" @@ 8 :> "2025-06-03" @@
    9 :> "2025-06-04" @@ 10 :> "2025-06-05" @@ 11 :> "2025-06-06" @@
    12 :> "2025-06-07" @@ 13 :> "2025-06-08" @@ 14 :> "2025-06-09" @@
    15 :> "2025-06-10" @@ 16 :> "2025-06-11" @@ 17 :> "2025-06-12" @@
    18 :> "2025-06-13" @@ 19 :> "2025-06-14" @@ 20 :> "2025-06-15" @@
    21 :> "2025-06-16"

toISODate(t) == ISODates[(t - TZOffsetMinutes) \div MinutesPerDay]

-----------------------------------------------------------------------------
(* availabilityService.js *)

DAY_MAP ==
    [Sunday |-> 0, Monday |-> 1, Tuesday |-> 2, Wednesday |-> 3,
     Thursday |-> 4, Friday |-> 5, Saturday |-> 6]

\* parseTime throws a TypeError when the text has no meridiem: period is
\* undefined and period.toUpperCase() is called on it.
parseTimeThrows(timeStr) == timeStr.period = Undefined

parseTime(timeStr) ==
    LET period == toUpperCase(timeStr.period)
        hours == IF period = "PM" /\ timeStr.hh # 12 THEN timeStr.hh + 12
                 ELSE IF period = "AM" /\ timeStr.hh = 12 THEN 0
                 ELSE timeStr.hh
    IN [hours |-> hours, minutes |-> timeStr.mm]

\* A data line of the file is [n, doctor, day, start, end]: n is the number of
\* comma-separated fields of the line, the others its first four fields.
\* The file is absent (existsSync is false), or present and unreadable
\* (readFileSync throws and the catch block returns []), or present with its
\* data lines (what follows the first line of the trimmed content).
entryOf(r) == [doctor |-> r.doctor, day |-> r.day, start |-> r.start, end |-> r.end]

readAvailability_ExactCase(file, name) ==
    IF ~file.present THEN <<>>
    ELSE IF ~file.readable THEN <<>>
    ELSE LET kept == SelectSeq(file.rows, LAMBDA r : r.n >= 4 /\ r.doctor = name)
         IN [i \in 1..Len(kept) |-> entryOf(kept[i])]

readAvailability(file, name) ==
    IF ~file.present THEN <<>>
    ELSE IF ~file.readable THEN <<>>
    ELSE LET kept == SelectSeq(file.rows,
                         LAMBDA r : r.n >= 4
                                    /\ toLowerCase(r.doctor) = toLowerCase(name))
         IN [i \in 1..Len(kept) |-> entryOf(kept[i])]

\* The dates of the current week: day name -> day number.
getCurrentWeekDates_SundayStartsWeek(t) ==
    LET currentDay == getDay(t)
        mondayOffset == 1 - currentDay
    IN [dayName \in DOMAIN DAY_MAP |->
            DayOf(t) + mondayOffset
              + (IF DAY_MAP[dayName] = 0 THEN 6 ELSE DAY_MAP[dayName] - 1)]

getCurrentWeekDates(t) ==
    LET currentDay == getDay(t)
        mondayOffset == IF currentDay = 0 THEN -6 ELSE 1 - currentDay
    IN [dayName \in DOMAIN DAY_MAP |->
            DayOf(t) + mondayOffset
              + (IF DAY_MAP[dayName] = 0 THEN 6 ELSE DAY_MAP[dayName] - 1)]

\* "Skip past slots": if (slotStart > now).
isFuture_OrNow(slotStart, t) == slotStart >= t

isFuture(slotStart, t) == slotStart > t

\* The while loop of generateSlots for one entry, from currentHour on.
RECURSIVE HourLoop(_, _, _, _, _, _)
HourLoop(entry, date, currentHour, start, end, t) ==
    IF ~(currentHour < end.hours
         \/ (currentHour = end.hours /\ start.minutes < end.minutes))
    THEN <<>>
    ELSE LET slotStart == setHours(date, currentHour, start.minutes)
             slotEnd == setHours(DayOf(slotStart), currentHour + 1, start.minutes)
         IN IF getHours(slotEnd) > end.hours
               \/ (getHours(slotEnd) = end.hours /\ getMinutes(slotEnd) > end.minutes)
            THEN <<>>
            ELSE (IF isFuture(slotStart, t)
                  THEN << [day |-> entry.day, date |-> toISODate(slotStart),
                           startTime |-> slotStart, endTime |-> slotEnd] >>
                  ELSE <<>>)
                 \o HourLoop(entry, date, currentHour + 1, start, end, t)

\* An entry whose day is no key of DAY_MAP is skipped before its times are
\* parsed.
entryThrows(entry) ==
    entry.day \in DOMAIN DAY_MAP
    /\ (parseTimeThrows(entry.start) \/ parseTimeThrows(entry.end))

generateSlotsThrows(entries) ==
    \E i \in 1..Len(entries) : entryThrows(entries[i])

RECURSIVE generateSlots(_, _)
generateSlots(entries, t) ==
    IF entries = <<>> THEN <<>>
    ELSE LET entry == Head(entries)
         IN (IF entry.day \notin DOMAIN DAY_MAP THEN <<>>
             ELSE HourLoop(entry, getCurrentWeekDates(t)[entry.day],
                           parseTime(entry.start).hours,
                           parseTime(entry.start), parseTime(entry.end), t))
            \o generateSlots(Tail(entries), t)

\* new Date(event.start): a dateTime is its instant; a date ("YYYY-MM-DD", an
\* all-day event) is parsed as midnight UTC of that date.
newDate(x) ==
    IF x.kind = "date" THEN x.v * MinutesPerDay + TZOffsetMinutes ELSE x.v

isBooked_Touching(slot, calEvents) ==
    \E i \in 1..Len(calEvents) :
        newDate(calEvents[i].start) <= slot.endTime
        /\ newDate(calEvents[i].end) >= slot.startTime

isBooked(slot, calEvents) ==
    \E i \in 1..Len(calEvents) :
        newDate(calEvents[i].start) < slot.endTime
        /\ newDate(calEvents[i].end) > slot.startTime

removeBookedSlots_SkipAfterRemoval(slots, calEvents) ==
    LET RECURSIVE Walk(_)
        Walk(i) ==
            IF i > Len(slots) THEN <<>>
            ELSE IF isBooked(slots[i], calEvents)
                 THEN (IF i + 1 <= Len(slots) THEN <<slots[i + 1]>> ELSE <<>>)
                      \o Walk(i + 2)
                 ELSE <<slots[i]>> \o Walk(i + 1)
    IN Walk(1)

RECURSIVE removeBookedSlots(_, _)
removeBookedSlots(slots, calEvents) ==
    IF slots = <<>> THEN <<>>
    ELSE (IF isBooked(Head(slots), calEvents) THEN <<>> ELSE <<Head(slots)>>)
         \o removeBookedSlots(Tail(slots), calEvents)

findMatchingSlotThrows(requested) == parseTimeThrows(requested.time)

\* Array.prototype.find: the first slot that matches, or null.
findMatchingSlot_CaseSensitive(slots, requestedDay, requestedTime) ==
    LET requestedParsed == parseTime(requestedTime)
        hits == {i \in 1..Len(slots) :
                    /\ (slots[i].day = requestedDay \/ slots[i].date = requestedDay)
                    /\ getHours(slots[i].startTime) = requestedParsed.hours
                    /\ getMinutes(slots[i].startTime) = requestedParsed.minutes}
    IN IF hits = {} THEN NullSlot
       ELSE slots[CHOOSE i \in hits : \A j \in hits : i <= j]

findMatchingSlot(slots, requestedDay, requestedTime) ==
    LET requestedParsed == parseTime(requestedTime)
        matches(slot) ==
            /\ (toLowerCase(slot.day) = toLowerCase(requestedDay)
                \/ slot.date = requestedDay)
            /\ getHours(slot.startTime) = requestedParsed.hours
            /\ getMinutes(slot.startTime) = requestedParsed.minutes
        hits == {i \in 1..Len(slots) : matches(slots[i])}
    IN IF hits = {} THEN NullSlot
       ELSE slots[CHOOSE i \in hits : \A j \in hits : i <= j]

\* formatAvailabilityTable: the text for no slot, or the slots grouped by day,
\* the groups in the order their days first appear.
RECURSIVE dayOrder(_, _)
dayOrder(slots, seen) ==
    IF slots = <<>> THEN <<>>
    ELSE IF Head(slots).day \in seen THEN dayOrder(Tail(slots), seen)
    ELSE <<Head(slots).day>> \o dayOrder(Tail(slots), seen \cup {Head(slots).day})

formatAvailabilityTable_Ungrouped(slots) ==
    IF Len(slots) = 0 THEN [kind |-> "NoSlotsText", groups |-> <<>>]
    ELSE [kind |-> "Table", groups |-> [i \in 1..Len(slots) |-> << slots[i] >>]]

formatAvailabilityTable(slots) ==
    IF Len(slots) = 0 THEN [kind |-> "NoSlotsText", groups |-> <<>>]
    ELSE LET days == dayOrder(slots, {})
         IN [kind |-> "Table",
             groups |-> [i \in 1..Len(days) |->
                            SelectSeq(slots, LAMBDA s : s.day = days[i])]]

-----------------------------------------------------------------------------
(* calendarService.js *)

\* The interval an event occupies on the calendar: a dateTime is its instant,
\* an all-day date is local midnight of that date.
onCalendar(x) == IF x.kind = "date" THEN x.v * MinutesPerDay ELSE x.v

\* The events in a set as a sequence ordered by start (orderBy: 'startTime').
RECURSIVE orderByStart(_)
orderByStart(events) ==
    IF events = {} THEN <<>>
    ELSE LET first == CHOOSE e \in events :
                 \A f \in events : << onCalendar(e.start), onCalendar(e.end) >>
                                     = << onCalendar(f.start), onCalendar(f.end) >>
                                   \/ onCalendar(e.start) < onCalendar(f.start)
                                   \/ (onCalendar(e.start) = onCalendar(f.start)
                                       /\ onCalendar(e.end) < onCalendar(f.end))
         IN <<first>> \o orderByStart(events \ {first})

\* calendar.events.list rejects a range that is empty (timeMin >= timeMax).
rangeAccepted(timeMin, timeMax) == timeMin < timeMax

\* getEventsForDateRange when the call succeeds: the events that end after
\* timeMin and start before timeMax, each mapped to {summary, start, end}.
getEventsForDateRange(events, timeMin, timeMax) ==
    orderByStart({e \in events : onCalendar(e.end) > timeMin
                                  /\ onCalendar(e.start) < timeMax})

\* The event createEvent inserts.
createdEvent(slot) ==
    [summary |-> "Appointment",
     start |-> [kind |-> "dateTime", v |-> slot.startTime],
     end |-> [kind |-> "dateTime", v |-> slot.endTime]]

\* summary: `Appointment - ${senderName}`, where the sender matters.
createdEventFor(slot, senderName) ==
    [createdEvent(slot) EXCEPT !.summary = senderName]

-----------------------------------------------------------------------------
(* aiService.js *)

\* What the model call does: no API key, a failed call, or an answer.
AiAnswers ==
    {"nokey", "throw", "AVAILABILITY_REQUEST", "BOOKING_CONFIRMATION", "SOMETHING ELSE"}

classifyAppointmentIntent_Unvalidated(ai) ==
    IF ai = "nokey" THEN "AVAILABILITY_REQUEST"
    ELSE IF ai = "throw" THEN "AVAILABILITY_REQUEST"
    ELSE ai

classifyAppointmentIntent_UnknownOnError(ai) ==
    IF ai = "nokey" THEN "AVAILABILITY_REQUEST"
    ELSE IF ai = "throw" THEN "UNKNOWN"
    ELSE IF ai \in {"AVAILABILITY_REQUEST", "BOOKING_CONFIRMATION"} THEN ai
    ELSE "AVAILABILITY_REQUEST"

classifyAppointmentIntent(ai) ==
    IF ai = "nokey" THEN "AVAILABILITY_REQUEST"
    ELSE IF ai = "throw" THEN "AVAILABILITY_REQUEST"
    ELSE IF ai \in {"AVAILABILITY_REQUEST", "BOOKING_CONFIRMATION"} THEN ai
    ELSE "AVAILABILITY_REQUEST"

\* extractBookingSlots returns a non-empty array or null; null is modelled by
\* the empty sequence, which the function never returns as an array.
extractBookingSlots(ex) ==
    IF ex.kind \in {"nokey", "throw"} THEN <<>>
    ELSE IF Len(ex.slots) > 0 THEN ex.slots ELSE <<>>

-----------------------------------------------------------------------------
(* appointmentHandler.js *)

\* catch (error) of handleAppointmentEmail: logs and returns.
ExitAfterThrow_NoCatch == "escaped"

ExitAfterThrow == "caught"

\* endDate = new Date(allSlots[allSlots.length - 1].endTime);
\* endDate.setDate(endDate.getDate() + 1)
readRangeOf(slots) ==
    << slots[1].startTime, slots[Len(slots)].endTime + MinutesPerDay >>

\* await createEvent({..., startTime: matchingSlot.startTime, endTime:
\* matchingSlot.endTime}) in the loop: one call, which returns or throws.
createEventCall_RetriedOnError(log, slot, ok) ==
    LET call == [startTime |-> slot.startTime, endTime |-> slot.endTime, ok |-> ok]
    IN IF ok THEN Append(log, call) ELSE Append(Append(log, call), call)

createEventCall(log, slot, ok) ==
    Append(log, [startTime |-> slot.startTime, endTime |-> slot.endTime, ok |-> ok])

\* const availability = readAvailability(doctorName); let allSlots =
\* generateSlots(availability): locals of the call, computed anew; left is
\* what earlier calls ended with, which the call has no access to.
freshSlots_Cached(left, entries, t) ==
    IF left = {} THEN generateSlots(entries, t) ELSE CHOOSE p \in left : TRUE

freshSlots(left, entries, t) == generateSlots(entries, t)

\* if (matchingSlot): the slot found in the pool is written to the calendar;
\* the events the calendar holds at that moment are not looked at.
shouldCommit_Always(matchingSlot, events) == TRUE

shouldCommit_Rechecked(matchingSlot, events) ==
    /\ matchingSlot # NullSlot
    /\ \A e \in events : ~(onCalendar(e.start) < matchingSlot.endTime
                           /\ onCalendar(e.end) > matchingSlot.startTime)

shouldCommit(matchingSlot, events) == matchingSlot # NullSlot

\* availableSlots.filter(s => s.startTime.getTime() !== matchingSlot.startTime.getTime())
removeFromPool_Forgotten(pool, slot) == pool

removeFromPool_WholeDay(pool, slot) ==
    SelectSeq(pool, LAMBDA s : s.date # slot.date)

removeFromPool(pool, slot) ==
    SelectSeq(pool, LAMBDA s : s.startTime # slot.startTime)

\* catch (bookingError): failedSlots.push(requested)
afterBookingError_Dropped(failed, requested) == failed

afterBookingError(failed, requested) == Append(failed, requested)

\* if (availability.length === 0): nothing is configured for the doctor.
noAvailability_Ignored(entries) == FALSE

noAvailability(entries) == Len(entries) = 0

\* if (failedSlots.length > 0) confirmationText += "Note: n requested slot(s)
\* could not be booked": the note with its number, or no note.
failedNote_Always(failed) == << Len(failed) >>

failedNote(failed) == IF Len(failed) > 0 THEN << Len(failed) >> ELSE <<>>

\* if (!requestedSlots || requestedSlots.length === 0): the extractor gave
\* null (modelled by the empty sequence) or an empty array.
noRequests_Ignored(requested) == FALSE

noRequests(requested) == Len(requested) = 0

\* The if / else if / else of handleAppointmentEmail: the flow entered for an
\* intent, or the end of the call when the intent is neither.
flowFor_AlwaysAvailability(i) == "AvailabilityFlow"

flowFor(i) ==
    IF i = "AVAILABILITY_REQUEST" THEN "AvailabilityFlow"
    ELSE IF i = "BOOKING_CONFIRMATION" THEN "BookingFlow"
    ELSE "Done"

\* if (allSlots.length === 0) in handleAvailabilityRequest.
noSlots_Ignored(slots) == FALSE

noSlots(slots) == Len(slots) = 0

NoTable == [kind |-> "None", groups |-> <<>>]

Reply(kind, table, booked, note, sent) ==
    [kind |-> kind, table |-> table, booked |-> booked, note |-> note,
     sent |-> sent]

\* sendReply: one sendEmail call, which reports failure as a value.
sendReply_ResentOnFailure(kind, table, booked, note) ==
    \E sent \in BOOLEAN :
        replies' = IF sent
                   THEN Append(replies, Reply(kind, table, booked, note, TRUE))
                   ELSE replies \o << Reply(kind, table, booked, note, FALSE),
                                     Reply(kind, table, booked, note, TRUE) >>

sendReply(kind, table, booked, note) ==
    \E sent \in BOOLEAN :
        replies' = Append(replies, Reply(kind, table, booked, note, sent))

Finish(how) == pc' = "Done" /\ exit' = how

-----------------------------------------------------------------------------
(* gmailReader.js *)

\* No fetchUnseenEmails call is under way.
NoFetch == [pc |-> "None"]

\* catch (emailError): errorCount++, and the for loop goes on with the next
\* uid.  i is the index of the failed message, n the number of messages.
afterEmailError_Abort(i, n) == n + 1

afterEmailError(i, n) == i + 1

\* finally: if (client) { try { await client.logout() } catch { log } }
shouldLogout_OnlyAfterSuccess(client, returned) == client /\ returned.success

shouldLogout(client, returned) == client

\* processEmail(message): the emailData of the message with this uid.
emailOf(uid) == [uid |-> uid]

\* The value of the catch block of fetchUnseenEmails.
FetchFailure == [success |-> FALSE, count |-> 0, emails |-> <<>>]

\* The value returned when the search finds nothing.
FetchNothing == [success |-> TRUE, count |-> 0, emails |-> <<>>]

\* catch (error) of sendEmail: a failed send is logged and returned as
\* { success: false }; sendReply drops the value and the flow returns.
afterSendEmail_Rethrown(sent) == IF sent THEN "completed" ELSE ExitAfterThrow

afterSendEmail(sent) == "completed"

\* The return of a flow right after its sendReply.
FinishAfterReply == Finish(afterSendEmail(replies'[Len(replies')].sent))

-----------------------------------------------------------------------------
(* Inputs *)

MaxRows == 2
MaxRequests == 2

T(hh, mm, period) == [hh |-> hh, mm |-> mm, period |-> period]

Row(n, doctor, day, start, end) ==
    [n |-> n, doctor |-> doctor, day |-> day, start |-> start, end |-> end]

\* Monday 09:00 AM - 12:00 PM; a window that overlaps it, starts on the half
\* hour and is no whole number of hours; a window that ends in the 23:00 hour,
\* on the last day of the week; another doctor's row; a row with three fields;
\* a row whose start has no meridiem.
Rows ==
    { Row(4, "Dr Rishabh", "Monday", T(9, 0, "AM"), T(12, 0, "PM")),
      Row(4, "dr rishabh", "Monday", T(10, 30, "AM"), T(12, 0, "PM")),
      Row(4, "Dr Rishabh", "Sunday", T(10, 0, "PM"), T(11, 30, "PM")),
      Row(4, "Dr Other", "Monday", T(9, 0, "AM"), T(12, 0, "PM")),
      Row(3, "Dr Rishabh", "Monday", T(9, 0, "AM"), T(9, 0, "AM")),
      Row(4, "Dr Rishabh", "Monday", T(9, 0, Undefined), T(12, 0, "PM")) }

\* The sequences of at most n distinct elements of S.
RECURSIVE Arrangements(_, _)
Arrangements(S, n) ==
    IF n = 0 THEN { <<>> }
    ELSE LET shorter == Arrangements(S, n - 1)
         IN shorter \cup { Append(q, x) : q \in shorter, x \in S }

NoRepeat(q) == \A i, j \in 1..Len(q) : i # j => q[i] # q[j]

File(present, readable, rows) ==
    [present |-> present, readable |-> readable, rows |-> rows]

\* No file, a file that cannot be read, and the files of at most MaxRows
\* distinct data lines (with none: the header alone).
FilesOf(lines) ==
    { File(FALSE, FALSE, <<>>), File(TRUE, FALSE, <<>>) }
    \cup { File(TRUE, TRUE, q) :
             q \in { r \in Arrangements(lines, MaxRows) : NoRepeat(r) } }

Files == FilesOf(Rows)

At(day, hh, mm) == setHours(day, hh, mm)

\* Monday 08:00, Monday 09:00 (the start of a slot), Wednesday 12:00 and
\* Sunday 21:00.
Nows == { At(7, 8, 0), At(7, 9, 0), At(9, 12, 0), At(13, 21, 0) }

Timed(summary, start, end) ==
    [summary |-> summary,
     start |-> [kind |-> "dateTime", v |-> start],
     end |-> [kind |-> "dateTime", v |-> end]]

\* Monday 09:00-09:30 and Monday 10:00-10:30.
Events ==
    { Timed("e1", At(7, 9, 0), At(7, 9, 30)),
      Timed("e2", At(7, 10, 0), At(7, 10, 30)) }

Request(day, time) == [day |-> day, time |-> time]

Requests ==
    { Request("Monday", T(10, 0, "AM")),
      Request("monday", T(10, 30, "AM")),
      Request("2025-06-08", T(11, 0, "PM")),
      Request("Monday", T(10, 0, Undefined)) }

Extractions ==
    { [kind |-> "nokey", slots |-> <<>>], [kind |-> "throw", slots |-> <<>>] }
    \cup { [kind |-> "json", slots |-> q] : q \in Arrangements(Requests, MaxRequests) }

-----------------------------------------------------------------------------
(* The state machine *)

Init ==
    /\ pc = "Idle"
    /\ exit = "running"
    /\ now \in Nows
    /\ doctorName = DoctorName
    /\ csv = File(FALSE, FALSE, <<>>)
    /\ availability = <<>>
    /\ csvReads = 0
    /\ calendar \in SUBSET Events
    /\ aiAnswer = Null
    /\ intent = Null
    /\ requestedSlots = <<>>
    /\ allSlots = <<>>
    /\ readState = "none"
    /\ reads = 0
    /\ readRange = <<0, 0>>
    /\ calAtRead = {}
    /\ calendarEvents = <<>>
    /\ availableSlots = <<>>
    /\ idx = 0
    /\ bookedSlots = <<>>
    /\ failedSlots = <<>>
    /\ outcomes = <<>>
    /\ writes = <<>>
    /\ replies = <<>>
    /\ flows = <<>>
    /\ history = <<>>
    /\ fetch = NoFetch

\* handleAppointmentEmail, lines 23-38: classify, then enter one flow.
ClassifyIntent ==
    /\ pc = "Idle"
    /\ \E ai \in AiAnswers :
         /\ aiAnswer' = ai
         /\ intent' = classifyAppointmentIntent(ai)
         /\ pc' = flowFor(intent')
         /\ exit' = IF pc' = "Done" THEN "completed" ELSE exit
    /\ UNCHANGED <<fetch, history, flows, now, doctorName, csv, availability, csvReads, calendar, requestedSlots, allSlots, readState,
                   reads, readRange, calAtRead, calendarEvents, availableSlots, idx,
                   bookedSlots, failedSlots, outcomes, writes, replies>>

\* The calendar read of both flows (the try block around
\* getEventsForDateRange and removeBookedSlots): the call fails, or it
\* returns the events of the range and the pool is filtered.
ReadCalendar_Twice(slots) ==
    LET range == readRangeOf(slots)
    IN /\ readRange' = range
       /\ reads' = reads + 2
       /\ calAtRead' = calendar
       /\ \/ /\ readState' = "failed"
             /\ calendarEvents' = <<>>
             /\ availableSlots' = slots
          \/ /\ rangeAccepted(range[1], range[2])
             /\ readState' = "ok"
             /\ calendarEvents' = getEventsForDateRange(calendar, range[1], range[2])
             /\ availableSlots' = removeBookedSlots(slots, calendarEvents')

ReadCalendar_EmptyOnFailure(slots) ==
    LET range == readRangeOf(slots)
    IN /\ readRange' = range
       /\ reads' = reads + 1
       /\ calAtRead' = calendar
       /\ \/ /\ readState' = "failed"
             /\ calendarEvents' = <<>>
             /\ availableSlots' = <<>>
          \/ /\ rangeAccepted(range[1], range[2])
             /\ readState' = "ok"
             /\ calendarEvents' = getEventsForDateRange(calendar, range[1], range[2])
             /\ availableSlots' = removeBookedSlots(slots, calendarEvents')

ReadCalendar(slots) ==
    LET range == readRangeOf(slots)
    IN /\ readRange' = range
       /\ reads' = reads + 1
       /\ calAtRead' = calendar
       /\ \/ /\ readState' = "failed"
             /\ calendarEvents' = <<>>
             /\ availableSlots' = slots
          \/ /\ rangeAccepted(range[1], range[2])
             /\ readState' = "ok"
             /\ calendarEvents' = getEventsForDateRange(calendar, range[1], range[2])
             /\ availableSlots' = removeBookedSlots(slots, calendarEvents')

\* handleAvailabilityRequest, lines 58-73.
AvReadGenerate ==
    /\ pc = "AvailabilityFlow"
    /\ \E file \in Files : availability' = readAvailability(file, doctorName)
    /\ csvReads' = csvReads + 1
    /\ IF noAvailability(availability')
       THEN /\ sendReply("NotConfigured", NoTable, <<>>, <<>>)
            /\ FinishAfterReply
            /\ UNCHANGED allSlots
       ELSE IF generateSlotsThrows(availability')
       THEN /\ Finish(ExitAfterThrow)
            /\ UNCHANGED <<allSlots, replies>>
       ELSE /\ allSlots' = generateSlots(availability', now)
            /\ IF noSlots(allSlots')
               THEN sendReply("NoRemainingSlots", NoTable, <<>>, <<>>)
                    /\ FinishAfterReply
               ELSE pc' = "AvCalendar" /\ UNCHANGED <<exit, replies>>
    /\ UNCHANGED <<fetch, history, flows, now, doctorName, csv, calendar, aiAnswer, intent, requestedSlots, readState,
                   reads, readRange, calAtRead, calendarEvents, availableSlots, idx,
                   bookedSlots, failedSlots, outcomes, writes>>

\* handleAvailabilityRequest, lines 75-96.
AvCalendarReply ==
    /\ pc = "AvCalendar"
    /\ ReadCalendar(allSlots)
    /\ sendReply("Availability", formatAvailabilityTable(availableSlots'), <<>>, <<>>)
    /\ FinishAfterReply
    /\ UNCHANGED <<fetch, history, flows, now, doctorName, csv, availability, csvReads, calendar, aiAnswer, intent, requestedSlots, allSlots, idx,
                   bookedSlots, failedSlots, outcomes, writes>>

\* handleBookingConfirmation, lines 109-121.
BkExtract ==
    /\ pc = "BookingFlow"
    /\ \E ex \in Extractions :
         /\ requestedSlots' = extractBookingSlots(ex)
         /\ IF noRequests(requestedSlots')
            THEN sendReply("Restate", NoTable, <<>>, <<>>) /\ FinishAfterReply
            ELSE pc' = "BkPrepare" /\ UNCHANGED <<exit, replies>>
    /\ UNCHANGED <<fetch, history, flows, now, doctorName, csv, availability, csvReads, calendar, aiAnswer, intent, allSlots, readState, reads, readRange,
                   calAtRead, calendarEvents, availableSlots, idx, bookedSlots,
                   failedSlots, outcomes, writes>>

\* handleBookingConfirmation, lines 123-147.
BkPrepare ==
    /\ pc = "BkPrepare"
    /\ \E file \in Files : availability' = readAvailability(file, doctorName)
    /\ csvReads' = csvReads + 1
    /\ IF generateSlotsThrows(availability')
       THEN /\ Finish(ExitAfterThrow)
            /\ UNCHANGED <<allSlots, readState, reads, readRange, calAtRead,
                           calendarEvents, availableSlots, idx>>
       ELSE /\ allSlots' = generateSlots(availability', now)
            /\ IF Len(allSlots') > 0
               THEN ReadCalendar(allSlots')
               ELSE /\ availableSlots' = allSlots'
                    /\ UNCHANGED <<readState, reads, readRange, calAtRead, calendarEvents>>
            /\ pc' = "BkLoop"
            /\ idx' = 1
            /\ exit' = exit
    /\ UNCHANGED <<fetch, history, flows, now, doctorName, csv, calendar, aiAnswer, intent, requestedSlots, bookedSlots,
                   failedSlots, outcomes, writes, replies>>

\* One iteration of the for loop, lines 149-177.
BkLoop ==
    /\ pc = "BkLoop"
    /\ idx <= Len(requestedSlots)
    /\ LET requested == requestedSlots[idx]
       IN IF findMatchingSlotThrows(requested)
          THEN /\ Finish(ExitAfterThrow)
               /\ UNCHANGED <<calendar, availableSlots, idx, bookedSlots,
                              failedSlots, outcomes, writes>>
          ELSE LET matchingSlot ==
                       findMatchingSlot(availableSlots, requested.day, requested.time)
               IN /\ idx' = idx + 1
                  /\ UNCHANGED <<pc, exit>>
                  /\ IF shouldCommit(matchingSlot, calendar)
                     THEN \/ /\ calendar' = calendar \cup {createdEvent(matchingSlot)}
                             /\ writes' = createEventCall(writes, matchingSlot, TRUE)
                             /\ bookedSlots' = Append(bookedSlots, matchingSlot)
                             /\ availableSlots' = removeFromPool(availableSlots, matchingSlot)
                             /\ outcomes' = Append(outcomes, "booked")
                             /\ UNCHANGED failedSlots
                          \/ /\ writes' = createEventCall(writes, matchingSlot, FALSE)
                             /\ failedSlots' = afterBookingError(failedSlots, requested)
                             /\ outcomes' = Append(outcomes, "writeFailed")
                             /\ UNCHANGED <<calendar, availableSlots, bookedSlots>>
                     ELSE /\ failedSlots' = Append(failedSlots, requested)
                          /\ outcomes' = Append(outcomes, "noMatch")
                          /\ UNCHANGED <<calendar, availableSlots, bookedSlots, writes>>
    /\ UNCHANGED <<fetch, history, flows, now, doctorName, csv, availability, csvReads, aiAnswer, intent, requestedSlots, allSlots, readState,
                   reads, readRange, calAtRead, calendarEvents, replies>>

\* handleBookingConfirmation, lines 179-209.
BkReply ==
    /\ pc = "BkLoop"
    /\ idx > Len(requestedSlots)
    /\ IF Len(bookedSlots) > 0
       THEN sendReply("Confirmation", NoTable, bookedSlots, failedNote(failedSlots))
       ELSE sendReply("Apology", formatAvailabilityTable(availableSlots), <<>>, <<>>)
    /\ FinishAfterReply
    /\ UNCHANGED <<fetch, history, flows, now, doctorName, csv, availability, csvReads, calendar, aiAnswer, intent, requestedSlots, allSlots,
                   readState, reads, readRange, calAtRead, calendarEvents,
                   availableSlots, idx, bookedSlots, failedSlots, outcomes, writes>>

Next ==
    \/ ClassifyIntent
    \/ AvReadGenerate
    \/ AvCalendarReply
    \/ BkExtract
    \/ BkPrepare
    \/ BkLoop
    \/ BkReply

Spec == Init /\ [][Next]_vars

-----------------------------------------------------------------------------
(* readAvailability on its own: one call, for a file and a doctor name *)

\* The data lines of Rows and a line with five fields for the doctor, whose
\* name is in upper case.
ReadRows ==
    Rows \cup { Row(5, "DR RISHABH", "Tuesday", T(2, 0, "PM"), T(4, 0, "PM")) }

ReadDoctorNames == { "Dr Rishabh", "DR RISHABH", "Dr Other" }

ReadInit ==
    /\ pc = "Read"
    /\ exit = "running"
    /\ now = At(7, 8, 0)
    /\ doctorName \in ReadDoctorNames
    /\ csv \in FilesOf(ReadRows)
    /\ availability = <<>>
    /\ csvReads = 0
    /\ calendar = {}
    /\ aiAnswer = Null
    /\ intent = Null
    /\ requestedSlots = <<>>
    /\ allSlots = <<>>
    /\ readState = "none"
    /\ reads = 0
    /\ readRange = <<0, 0>>
    /\ calAtRead = {}
    /\ calendarEvents = <<>>
    /\ availableSlots = <<>>
    /\ idx = 0
    /\ bookedSlots = <<>>
    /\ failedSlots = <<>>
    /\ outcomes = <<>>
    /\ writes = <<>>
    /\ replies = <<>>
    /\ flows = <<>>
    /\ history = <<>>
    /\ fetch = NoFetch

\* readAvailability(doctorName): it returns, from the try block or from the
\* catch block.
ReadCall ==
    /\ pc = "Read"
    /\ availability' = readAvailability(csv, doctorName)
    /\ csvReads' = csvReads + 1
    /\ Finish("completed")
    /\ UNCHANGED <<fetch, history, flows, now, doctorName, csv, calendar, aiAnswer, intent, requestedSlots,
                   allSlots, readState, reads, readRange, calAtRead, calendarEvents,
                   availableSlots, idx, bookedSlots, failedSlots, outcomes, writes,
                   replies>>

ReadNext == ReadCall

SpecRead == ReadInit /\ [][ReadNext]_vars

-----------------------------------------------------------------------------
(* generateSlots and findMatchingSlot as functions, for the slots' dates: the
   windows include one before dawn, and the requests name dates. *)

DateRows ==
    { Row(4, "Dr Rishabh", "Monday", T(9, 0, "AM"), T(12, 0, "PM")),
      Row(4, "Dr Rishabh", "Tuesday", T(4, 0, "AM"), T(5, 0, "AM")),
      Row(4, "Dr Rishabh", "Tuesday", T(9, 0, "AM"), T(10, 0, "AM")),
      Row(4, "Dr Rishabh", "Sunday", T(10, 0, "PM"), T(11, 30, "PM")) }

DateRequests ==
    { Request("2025-06-03", T(4, 0, "AM")),
      Request("2025-06-02", T(4, 0, "AM")),
      Request("2025-06-03", T(9, 0, "AM")) }

DatesInit ==
    /\ pc = "Generate"
    /\ exit = "running"
    /\ now \in Nows
    /\ doctorName = DoctorName
    /\ csv = File(FALSE, FALSE, <<>>)
    /\ availability \in { [i \in 1..Len(q) |-> entryOf(q[i])] :
                             q \in Arrangements(DateRows, MaxRows) }
    /\ csvReads = 0
    /\ calendar = {}
    /\ aiAnswer = Null
    /\ intent = Null
    /\ requestedSlots = <<>>
    /\ allSlots = <<>>
    /\ readState = "none"
    /\ reads = 0
    /\ readRange = <<0, 0>>
    /\ calAtRead = {}
    /\ calendarEvents = <<>>
    /\ availableSlots = <<>>
    /\ idx = 0
    /\ bookedSlots = <<>>
    /\ failedSlots = <<>>
    /\ outcomes = <<>>
    /\ writes = <<>>
    /\ replies = <<>>
    /\ flows = <<>>
    /\ history = <<>>
    /\ fetch = NoFetch

\* generateSlots(availability)
GenerateCall ==
    /\ pc = "Generate"
    /\ allSlots' = generateSlots(availability, now)
    /\ availableSlots' = allSlots'
    /\ pc' = "Match"
    /\ UNCHANGED <<fetch, history, flows, now, doctorName, csv, availability, csvReads, calendar,
                   aiAnswer, intent, requestedSlots, readState, reads, readRange,
                   calAtRead, calendarEvents, idx, bookedSlots, failedSlots,
                   outcomes, writes, replies, exit>>

\* findMatchingSlot(availableSlots, requested.day, requested.time); the slot
\* found, if any, is kept in bookedSlots.
MatchCall ==
    /\ pc = "Match"
    /\ \E requested \in DateRequests :
         LET matchingSlot ==
                 findMatchingSlot(availableSlots, requested.day, requested.time)
         IN /\ requestedSlots' = << requested >>
            /\ bookedSlots' = IF matchingSlot # NullSlot
                              THEN << matchingSlot >> ELSE <<>>
    /\ Finish("completed")
    /\ UNCHANGED <<fetch, history, flows, now, doctorName, csv, availability, csvReads, calendar,
                   aiAnswer, intent, allSlots, readState, reads, readRange,
                   calAtRead, calendarEvents, availableSlots, idx, failedSlots,
                   outcomes, writes, replies>>

DatesNext == GenerateCall \/ MatchCall

SpecDates == DatesInit /\ [][DatesNext]_vars

-----------------------------------------------------------------------------
(* Two handleBookingConfirmation invocations at the same time.  Each await  *)
(* of an invocation (the calendar read, each createEvent, the reply) is a   *)
(* point where the other invocation may run; between two awaits an          *)
(* invocation runs alone.  Both work on the same file, clock and calendar.  *)

Senders == {"sender-1", "sender-2"}

\* The requests of the two messages: Monday 10:00 AM and Monday 11:00 AM.
ConcurrentRequests ==
    { Request("Monday", T(10, 0, "AM")), Request("Monday", T(11, 0, "AM")) }

\* The calendar is empty or holds an event Monday 10:00-10:30.
ConcurrentEvents == { Timed("e2", At(7, 10, 0), At(7, 10, 30)) }

\* An invocation that has its requests and has not read the file yet.
FlowStart(requested) ==
    [pc |-> "BkPrepare", exit |-> "running", requestedSlots |-> requested,
     allSlots |-> <<>>, readState |-> "none", availableSlots |-> <<>>, idx |-> 0,
     bookedSlots |-> <<>>, failedSlots |-> <<>>, writes |-> <<>>, replies |-> <<>>]

ConcurrentInit ==
    /\ pc = "Concurrent"
    /\ exit = "running"
    /\ now = At(7, 8, 0)
    /\ doctorName = DoctorName
    /\ csv = File(TRUE, TRUE, << Row(4, "Dr Rishabh", "Monday", T(9, 0, "AM"), T(12, 0, "PM")) >>)
    /\ availability = <<>>
    /\ csvReads = 0
    /\ calendar \in SUBSET ConcurrentEvents
    /\ aiAnswer = Null
    /\ intent = Null
    /\ requestedSlots = <<>>
    /\ allSlots = <<>>
    /\ readState = "none"
    /\ reads = 0
    /\ readRange = <<0, 0>>
    /\ calAtRead = {}
    /\ calendarEvents = <<>>
    /\ availableSlots = <<>>
    /\ idx = 0
    /\ bookedSlots = <<>>
    /\ failedSlots = <<>>
    /\ outcomes = <<>>
    /\ writes = <<>>
    /\ replies = <<>>
    /\ flows \in [Senders -> { FlowStart(q) :
                                 q \in Arrangements(ConcurrentRequests, MaxRequests)
                                         \ { <<>> } }]
    /\ history = <<>>
    /\ fetch = NoFetch

\* handleBookingConfirmation, lines 123-147, of the invocation for sender f.
FlowPrepare(f) ==
    /\ flows[f].pc = "BkPrepare"
    /\ LET entries == readAvailability(csv, doctorName)
       IN IF generateSlotsThrows(entries)
          THEN flows' = [flows EXCEPT ![f].pc = "Done", ![f].exit = ExitAfterThrow]
          ELSE LET left == {flows[g].availableSlots :
                               g \in {h \in Senders : flows[h].pc = "Done"}}
                   slots == freshSlots(left, entries, now)
                   range == readRangeOf(slots)
               IN IF Len(slots) > 0
                  THEN \/ flows' = [flows EXCEPT ![f].pc = "BkLoop", ![f].idx = 1,
                                       ![f].allSlots = slots,
                                       ![f].readState = "failed",
                                       ![f].availableSlots = slots]
                       \/ /\ rangeAccepted(range[1], range[2])
                          /\ flows' = [flows EXCEPT ![f].pc = "BkLoop", ![f].idx = 1,
                                          ![f].allSlots = slots,
                                          ![f].readState = "ok",
                                          ![f].availableSlots =
                                              removeBookedSlots(slots,
                                                  getEventsForDateRange(calendar,
                                                      range[1], range[2]))]
                  ELSE flows' = [flows EXCEPT ![f].pc = "BkLoop", ![f].idx = 1,
                                    ![f].allSlots = slots,
                                    ![f].availableSlots = slots]
    /\ UNCHANGED <<fetch, history, pc, exit, now, doctorName, csv, availability, csvReads, calendar,
                   aiAnswer, intent, requestedSlots, allSlots, readState, reads,
                   readRange, calAtRead, calendarEvents, availableSlots, idx,
                   bookedSlots, failedSlots, outcomes, writes, replies>>

\* One iteration of the for loop, lines 149-177, of the invocation for f.
FlowLoop(f) ==
    /\ flows[f].pc = "BkLoop"
    /\ flows[f].idx <= Len(flows[f].requestedSlots)
    /\ LET requested == flows[f].requestedSlots[flows[f].idx]
       IN IF findMatchingSlotThrows(requested)
          THEN /\ flows' = [flows EXCEPT ![f].pc = "Done", ![f].exit = ExitAfterThrow]
               /\ UNCHANGED calendar
          ELSE LET matchingSlot ==
                       findMatchingSlot(flows[f].availableSlots, requested.day,
                                        requested.time)
               IN IF shouldCommit(matchingSlot, calendar)
                  THEN \/ /\ calendar' = calendar \cup {createdEventFor(matchingSlot, f)}
                          /\ flows' = [flows EXCEPT
                                 ![f].idx = @ + 1,
                                 ![f].writes = createEventCall(@, matchingSlot, TRUE),
                                 ![f].bookedSlots = Append(@, matchingSlot),
                                 ![f].availableSlots = removeFromPool(@, matchingSlot)]
                       \/ /\ flows' = [flows EXCEPT
                                 ![f].idx = @ + 1,
                                 ![f].writes = createEventCall(@, matchingSlot, FALSE),
                                 ![f].failedSlots = afterBookingError(@, requested)]
                          /\ UNCHANGED calendar
                  ELSE /\ flows' = [flows EXCEPT ![f].idx = @ + 1,
                                        ![f].failedSlots = Append(@, requested)]
                       /\ UNCHANGED calendar
    /\ UNCHANGED <<fetch, history, pc, exit, now, doctorName, csv, availability, csvReads,
                   aiAnswer, intent, requestedSlots, allSlots, readState, reads,
                   readRange, calAtRead, calendarEvents, availableSlots, idx,
                   bookedSlots, failedSlots, outcomes, writes, replies>>

\* handleBookingConfirmation, lines 179-209, of the invocation for f.
FlowReply(f) ==
    /\ flows[f].pc = "BkLoop"
    /\ flows[f].idx > Len(flows[f].requestedSlots)
    /\ \E sent \in BOOLEAN :
         flows' = [flows EXCEPT
            ![f].pc = "Done", ![f].exit = "completed",
            ![f].replies =
                Append(@, IF Len(flows[f].bookedSlots) > 0
                          THEN Reply("Confirmation", NoTable, flows[f].bookedSlots,
                                     failedNote(flows[f].failedSlots), sent)
                          ELSE Reply("Apology",
                                     formatAvailabilityTable(flows[f].availableSlots),
                                     <<>>, <<>>, sent))]
    /\ UNCHANGED <<fetch, history, pc, exit, now, doctorName, csv, availability, csvReads, calendar,
                   aiAnswer, intent, requestedSlots, allSlots, readState, reads,
                   readRange, calAtRead, calendarEvents, availableSlots, idx,
                   bookedSlots, failedSlots, outcomes, writes, replies>>

ConcurrentNext ==
    \E f \in Senders : FlowPrepare(f) \/ FlowLoop(f) \/ FlowReply(f)

SpecConcurrent == ConcurrentInit /\ [][ConcurrentNext]_vars

-----------------------------------------------------------------------------
(* Two invocations of handleBookingConfirmation, one after the other.  The
   first call returns before the second message arrives; in between the
   calendar's owner may have removed what the first call booked. *)

\* The place of each message in the order of arrival.
Arrival == "sender-1" :> 1 @@ "sender-2" :> 2

RepeatInit ==
    /\ pc = "Repeat"
    /\ exit = "running"
    /\ now = At(7, 8, 0)
    /\ doctorName = DoctorName
    /\ csv = File(TRUE, TRUE, << Row(4, "Dr Rishabh", "Monday", T(9, 0, "AM"), T(12, 0, "PM")) >>)
    /\ availability = <<>>
    /\ csvReads = 0
    /\ calendar \in SUBSET ConcurrentEvents
    /\ aiAnswer = Null
    /\ intent = Null
    /\ requestedSlots = <<>>
    /\ allSlots = <<>>
    /\ readState = "none"
    /\ reads = 0
    /\ readRange = <<0, 0>>
    /\ calAtRead = {}
    /\ calendarEvents = <<>>
    /\ availableSlots = <<>>
    /\ idx = 0
    /\ bookedSlots = <<>>
    /\ failedSlots = <<>>
    /\ outcomes = <<>>
    /\ writes = <<>>
    /\ replies = <<>>
    /\ flows \in [Senders -> { FlowStart(q) :
                                 q \in Arrangements(ConcurrentRequests, MaxRequests)
                                         \ { <<>> } }]
    /\ history = << calendar >>
    /\ fetch = NoFetch

\* A step of the invocation whose turn it is.
RepeatStep(f) ==
    /\ Len(history) = Arrival[f]
    /\ FlowPrepare(f) \/ FlowLoop(f) \/ FlowReply(f)

\* The first call has returned and the second message arrives; the calendar
\* is as the first call left it, or as it was before the first call.
NextMessage ==
    /\ Len(history) = 1
    /\ flows["sender-1"].pc = "Done"
    /\ calendar' \in {calendar, history[1]}
    /\ history' = Append(history, calendar')
    /\ UNCHANGED <<fetch, flows, pc, exit, now, doctorName, csv, availability, csvReads,
                   aiAnswer, intent, requestedSlots, allSlots, readState, reads,
                   readRange, calAtRead, calendarEvents, availableSlots, idx,
                   bookedSlots, failedSlots, outcomes, writes, replies>>

RepeatNext ==
    \/ \E f \in Senders : RepeatStep(f)
    \/ NextMessage

SpecRepeat == RepeatInit /\ [][RepeatNext]_vars

-----------------------------------------------------------------------------
(* One call of fetchUnseenEmails. *)

MaxUnseen == 3

Uids == 1..MaxUnseen

\* What the search can return: null, or a list of uids.
SearchResults == Arrangements(Uids, MaxUnseen)

FetchInit ==
    /\ pc = "Fetch"
    /\ exit = "running"
    /\ now = At(7, 8, 0)
    /\ doctorName = DoctorName
    /\ csv = File(FALSE, FALSE, <<>>)
    /\ availability = <<>>
    /\ csvReads = 0
    /\ calendar = {}
    /\ aiAnswer = Null
    /\ intent = Null
    /\ requestedSlots = <<>>
    /\ allSlots = <<>>
    /\ readState = "none"
    /\ reads = 0
    /\ readRange = <<0, 0>>
    /\ calAtRead = {}
    /\ calendarEvents = <<>>
    /\ availableSlots = <<>>
    /\ idx = 0
    /\ bookedSlots = <<>>
    /\ failedSlots = <<>>
    /\ outcomes = <<>>
    /\ writes = <<>>
    /\ replies = <<>>
    /\ flows = <<>>
    /\ history = <<>>
    /\ fetch = [pc |-> "Open", client |-> FALSE, path |-> "none",
                unseen |-> <<>>, i |-> 0, handled |-> <<>>,
                processedEmails |-> <<>>, successCount |-> 0, errorCount |-> 0,
                returned |-> FetchFailure, delivered |-> FetchFailure,
                logouts |-> 0, logoutFailed |-> FALSE]

\* Lines 146-172: the credentials are checked, the client is created, then
\* connect and mailboxOpen are awaited; a throw goes to the catch block.
FetchOpen ==
    /\ fetch.pc = "Open"
    /\ \/ fetch' = [fetch EXCEPT !.pc = "Finally", !.path = "noCredentials",
                                  !.returned = FetchFailure]
       \/ fetch' = [fetch EXCEPT !.pc = "Finally", !.client = TRUE,
                                  !.path = "connectError",
                                  !.returned = FetchFailure]
       \/ fetch' = [fetch EXCEPT !.pc = "Search", !.client = TRUE]
    /\ UNCHANGED <<history, flows, pc, exit, now, doctorName, csv, availability,
                   csvReads, calendar, aiAnswer, intent, requestedSlots, allSlots,
                   readState, reads, readRange, calAtRead, calendarEvents,
                   availableSlots, idx, bookedSlots, failedSlots, outcomes, writes,
                   replies>>

\* Lines 174-191: the search; it throws, or finds nothing, or finds uids.
FetchSearch ==
    /\ fetch.pc = "Search"
    /\ \/ fetch' = [fetch EXCEPT !.pc = "Finally", !.path = "searchError",
                                  !.returned = FetchFailure]
       \/ \E found \in SearchResults :
            fetch' = IF Len(found) = 0
                     THEN [fetch EXCEPT !.pc = "Finally", !.path = "empty",
                                        !.returned = FetchNothing]
                     ELSE [fetch EXCEPT !.pc = "Loop", !.unseen = found, !.i = 1]
    /\ UNCHANGED <<history, flows, pc, exit, now, doctorName, csv, availability,
                   csvReads, calendar, aiAnswer, intent, requestedSlots, allSlots,
                   readState, reads, readRange, calAtRead, calendarEvents,
                   availableSlots, idx, bookedSlots, failedSlots, outcomes, writes,
                   replies>>

\* One iteration of the for loop, lines 194-215: fetchOne and processEmail
\* succeed, or one of them throws and the catch block counts the error.
FetchOne ==
    /\ fetch.pc = "Loop"
    /\ fetch.i <= Len(fetch.unseen)
    /\ \E how \in {"processed", "fetchFailed", "processFailed"} :
         fetch' = IF how = "processed"
                  THEN [fetch EXCEPT
                          !.processedEmails = Append(@, emailOf(fetch.unseen[fetch.i])),
                          !.successCount = @ + 1,
                          !.handled = Append(@, how),
                          !.i = @ + 1]
                  ELSE [fetch EXCEPT
                          !.errorCount = @ + 1,
                          !.handled = Append(@, how),
                          !.i = afterEmailError(@, Len(fetch.unseen))]
    /\ UNCHANGED <<history, flows, pc, exit, now, doctorName, csv, availability,
                   csvReads, calendar, aiAnswer, intent, requestedSlots, allSlots,
                   readState, reads, readRange, calAtRead, calendarEvents,
                   availableSlots, idx, bookedSlots, failedSlots, outcomes, writes,
                   replies>>

\* Lines 217-228: the return after the loop.
FetchReturn ==
    /\ fetch.pc = "Loop"
    /\ fetch.i > Len(fetch.unseen)
    /\ fetch' = [fetch EXCEPT
                   !.pc = "Finally", !.path = "completed",
                   !.returned = [success |-> TRUE, count |-> fetch.successCount,
                                 errors |-> fetch.errorCount,
                                 emails |-> fetch.processedEmails]]
    /\ UNCHANGED <<history, flows, pc, exit, now, doctorName, csv, availability,
                   csvReads, calendar, aiAnswer, intent, requestedSlots, allSlots,
                   readState, reads, readRange, calAtRead, calendarEvents,
                   availableSlots, idx, bookedSlots, failedSlots, outcomes, writes,
                   replies>>

\* Lines 241-251: the finally block; then the caller gets the value of the
\* return statement that was executed.
FetchFinally ==
    /\ fetch.pc = "Finally"
    /\ IF shouldLogout(fetch.client, fetch.returned)
       THEN \E ok \in BOOLEAN :
               fetch' = [fetch EXCEPT !.pc = "Returned", !.logouts = @ + 1,
                                      !.logoutFailed = ~ok,
                                      !.delivered = fetch.returned]
       ELSE fetch' = [fetch EXCEPT !.pc = "Returned",
                                   !.delivered = fetch.returned]
    /\ UNCHANGED <<history, flows, pc, exit, now, doctorName, csv, availability,
                   csvReads, calendar, aiAnswer, intent, requestedSlots, allSlots,
                   readState, reads, readRange, calAtRead, calendarEvents,
                   availableSlots, idx, bookedSlots, failedSlots, outcomes, writes,
                   replies>>

FetchNext ==
    \/ FetchOpen
    \/ FetchSearch
    \/ FetchOne
    \/ FetchReturn
    \/ FetchFinally

SpecFetch == FetchInit /\ [][FetchNext]_vars

-----------------------------------------------------------------------------
(* Properties *)

\* The pool the booking loop starts from: the generated slots, filtered when
\* the calendar read succeeded.
FilteredSlots ==
    IF readState = "ok" THEN removeBookedSlots(allSlots, calendarEvents)
    ELSE allSlots

\* The start instant request i names in the pool the loop starts from, or -1.
NamedStart(i) ==
    IF findMatchingSlotThrows(requestedSlots[i]) THEN -1
    ELSE findMatchingSlot(FilteredSlots, requestedSlots[i].day,
                          requestedSlots[i].time).startTime

\* C1: within one BookingFlow run no start instant is committed twice: no two
\* entries of bookedSlots have the same startTime, and no two successful
\* createEvent calls have the same start instant, whatever the requests and
\* whichever writes fail.
C1_NoStartCommittedTwice ==
    /\ \A i, j \in 1..Len(bookedSlots) :
         i # j => bookedSlots[i].startTime # bookedSlots[j].startTime
    /\ \A i, j \in 1..Len(writes) :
         (i # j /\ writes[i].ok /\ writes[j].ok)
           => writes[i].startTime # writes[j].startTime

\* C1 witness: the write for a slot failed, the slot stayed in the pool, and a
\* later request for the same start instant was committed.
C1_Witness ==
    /\ pc = "Done"
    /\ Len(writes) = 2
    /\ writes[1].startTime = writes[2].startTime
    /\ ~writes[1].ok
    /\ writes[2].ok

C3_ExactlyOneReplyAtEnd == pc = "Done" => Len(replies) = 1

\* C4: no exception escapes handleAppointmentEmail: whatever the collaborators
\* do, the call completes normally (it returns, after a flow ran to its end or
\* after the catch block swallowed a throw).
C4_NoExceptionEscapes ==
    /\ exit # "escaped"
    /\ pc = "Done" => exit \in {"completed", "caught"}

\* C4 witness: a throw inside the booking loop, after a failed calendar read
\* and a failed calendar write, was caught and the call ended.
C4_Witness ==
    /\ pc = "Done"
    /\ exit = "caught"
    /\ readState = "failed"
    /\ outcomes = << "writeFailed" >>

\* C5: in BookingFlow every request the loop has passed is in exactly one of
\* bookedSlots (matched and written) and failedSlots (no match, or the write
\* failed); after the loop the two lists together hold as many entries as there
\* are requests; and only a throw, never a no-match or a failed write, keeps
\* the following requests from being attempted.
C5_EveryRequestSettled ==
    LET n(kinds) == Cardinality({i \in 1..Len(outcomes) : outcomes[i] \in kinds})
    IN /\ Len(bookedSlots) = n({"booked"})
       /\ Len(failedSlots) = n({"noMatch", "writeFailed"})
       /\ pc = "BkLoop" => Len(outcomes) = idx - 1
       /\ (pc = "BkLoop" /\ idx > Len(requestedSlots))
            => Len(bookedSlots) + Len(failedSlots) = Len(requestedSlots)
       /\ (pc = "Done" /\ exit = "completed" /\ Len(requestedSlots) > 0)
            => Len(bookedSlots) + Len(failedSlots) = Len(requestedSlots)
       /\ (pc = "Done" /\ exit = "caught" /\ idx > 0)
            => /\ Len(outcomes) = idx - 1
               /\ findMatchingSlotThrows(requestedSlots[idx])

\* C5 witness: the first request's write failed, the second request had no
\* match, and the flow replied.
C5_Witness ==
    /\ pc = "Done"
    /\ exit = "completed"
    /\ outcomes = << "writeFailed", "noMatch" >>
    /\ Len(failedSlots) = 2

\* The slots an availability table lists.
TableSlots(table) ==
    UNION { {table.groups[i][j] : j \in 1..Len(table.groups[i])} :
              i \in 1..Len(table.groups) }

\* Whether a calendar event and a slot overlap.
Overlaps(e, slot) ==
    onCalendar(e.start) < slot.endTime /\ onCalendar(e.end) > slot.startTime

\* C6: when the calendar read succeeded, no slot listed in an availability
\* reply and no slot committed by BookingFlow overlaps an event that was on the
\* calendar when it was read.
C6_NoOfferedOrBookedOverlap ==
    readState = "ok" =>
        /\ \A r \in 1..Len(replies) :
             replies[r].kind = "Availability" =>
                \A slot \in TableSlots(replies[r].table) :
                    \A e \in calAtRead : ~Overlaps(e, slot)
        /\ \A b \in 1..Len(bookedSlots) :
             \A e \in calAtRead : ~Overlaps(e, bookedSlots[b])

\* C7: generateSlots never returns a slot that starts at or before the
\* evaluation timestamp.
C7_NoSlotAtOrBeforeNow ==
    \A i \in 1..Len(allSlots) : allSlots[i].startTime > now

\* C7 witness: now is Monday 09:00, the start of the first hour of the window
\* Monday 09:00-12:00; the hours 10:00 and 11:00 were generated, 09:00 was not.
C7_Witness ==
    /\ now = At(7, 9, 0)
    /\ Len(allSlots) = 2
    /\ allSlots[1].startTime = At(7, 10, 0)
    /\ allSlots[2].startTime = At(7, 11, 0)

\* The windows generateSlots is given, as intervals of the current week
\* (Monday is the day DayOf(now) - DayOf(now) % 7, epoch day 0 being a Monday).
WeekdayIndex ==
    [Monday |-> 0, Tuesday |-> 1, Wednesday |-> 2, Thursday |-> 3,
     Friday |-> 4, Saturday |-> 5, Sunday |-> 6]

Windows == availability

WindowDate(w) == DayOf(now) - (DayOf(now) % 7) + WeekdayIndex[w.day]

WindowStart(w) ==
    WindowDate(w) * MinutesPerDay
      + parseTime(w.start).hours * MinutesPerHour + parseTime(w.start).minutes

WindowEnd(w) ==
    WindowDate(w) * MinutesPerDay
      + parseTime(w.end).hours * MinutesPerHour + parseTime(w.end).minutes

WindowsWellFormed ==
    \A i \in 1..Len(Windows) :
        /\ Windows[i].day \in DOMAIN WeekdayIndex
        /\ ~parseTimeThrows(Windows[i].start)
        /\ ~parseTimeThrows(Windows[i].end)
        /\ WindowStart(Windows[i]) < WindowEnd(Windows[i])

WindowsNonOverlapping ==
    \A i, j \in 1..Len(Windows) :
        i # j => ~(WindowStart(Windows[i]) < WindowEnd(Windows[j])
                   /\ WindowStart(Windows[j]) < WindowEnd(Windows[i]))

\* The whole hours of a window from its start, those that start after now.
Tiles(w) ==
    LET count == (WindowEnd(w) - WindowStart(w)) \div MinutesPerHour
        all == [k \in 1..count |->
                  << WindowStart(w) + (k - 1) * MinutesPerHour,
                     WindowStart(w) + k * MinutesPerHour >>]
    IN SelectSeq(all, LAMBDA iv : iv[1] > now)

RECURSIVE AllTiles(_)
AllTiles(ws) == IF ws = <<>> THEN <<>> ELSE Tiles(Head(ws)) \o AllTiles(Tail(ws))

SlotsGenerated == pc \in {"AvCalendar", "BkLoop"}

\* C8: for non-overlapping windows the generated slots are pairwise disjoint
\* and are, window by window, exactly the whole hours of the window counted
\* from its start (those not yet begun), with no partial trailing slot.
C8_SlotsTileWindows ==
    (SlotsGenerated /\ WindowsWellFormed /\ WindowsNonOverlapping) =>
        /\ [i \in 1..Len(allSlots) |-> << allSlots[i].startTime, allSlots[i].endTime >>]
             = AllTiles(Windows)
        /\ \A i, j \in 1..Len(allSlots) :
             i # j => ~(allSlots[i].startTime < allSlots[j].endTime
                        /\ allSlots[j].startTime < allSlots[i].endTime)

\* The states right after removeBookedSlots ran: availableSlots is its result
\* for allSlots and calendarEvents.
JustFiltered ==
    /\ readState = "ok"
    /\ \/ pc = "BkLoop" /\ idx = 1
       \/ pc = "Done" /\ intent = "AVAILABILITY_REQUEST"

\* The positions of allSlots that no returned event overlaps.
Unbooked ==
    {i \in 1..Len(allSlots) :
        \A k \in 1..Len(calendarEvents) :
            ~(newDate(calendarEvents[k].start) < allSlots[i].endTime
              /\ newDate(calendarEvents[k].end) > allSlots[i].startTime)}

\* C9: the filter returns exactly the input slots that no event overlaps
\* (event.start < slot.end and event.end > slot.start), in input order; an
\* event that only touches a slot does not remove it, and with no event the
\* output is the input.
C9_FilterKeepsExactlyUnbooked ==
    JustFiltered =>
        /\ Len(availableSlots) = Cardinality(Unbooked)
        /\ \A n \in 1..Len(availableSlots) :
             availableSlots[n] =
                allSlots[CHOOSE i \in Unbooked :
                            Cardinality({j \in Unbooked : j <= i}) = n]
        /\ calendarEvents = <<>> => availableSlots = allSlots

\* C9 witness: the event Monday 10:00-10:30 removed the slot 10:00-11:00 and
\* left the slot that ends at 10:00 and the slot that starts at 10:30.
C9_Witness ==
    /\ JustFiltered
    /\ Len(calendarEvents) = 1
    /\ Len(availableSlots) = Len(allSlots) - 1
    /\ \E i, j \in 1..Len(availableSlots) :
         /\ availableSlots[i].endTime = newDate(calendarEvents[1].start)
         /\ availableSlots[j].startTime = newDate(calendarEvents[1].end)

\* C10: the filter is idempotent: filtering its result again with the same
\* events changes nothing.
C10_FilterIdempotent ==
    JustFiltered =>
        removeBookedSlots(availableSlots, calendarEvents) = availableSlots

\* C10 witness: a filter run that removed two neighbouring slots and kept one.
C10_Witness ==
    /\ JustFiltered
    /\ Len(calendarEvents) = 2
    /\ Len(allSlots) = 3
    /\ Len(availableSlots) = 1

\* The minute of the day a 12-hour clock text names: 12 AM is 00, 12 PM is 12.
ClockMinute(time) ==
    ((time.hh % 12) + (IF time.period \in {"PM", "pm"} THEN 12 ELSE 0))
        * MinutesPerHour + time.mm

\* Slot satisfies the request: its weekday name is the requested day whatever
\* the case of the letters, or its date text is the requested day, and it
\* starts at the requested minute of the day.
Satisfies(slot, requested) ==
    /\ \/ toLowerCase(slot.day) = toLowerCase(requested.day)
       \/ slot.date = requested.day
    /\ slot.startTime % MinutesPerDay = ClockMinute(requested.time)

\* C11: every iteration of the booking loop that gets a result from the match
\* works on the first slot of the pool, in pool order, that satisfies the
\* request (weekday name equal whatever the case, or date text equal verbatim,
\* and start hour and minute equal to the parsed 12-hour time): that slot is
\* what the calendar write is called with and what is recorded as booked; when
\* no pool slot satisfies the request the match returns none, nothing is
\* written and the request is recorded as failed.
C11_MatchIsFirstSatisfying ==
    [][ (pc = "BkLoop" /\ idx' = idx + 1) =>
          LET requested == requestedSlots[idx]
              sat == {k \in 1..Len(availableSlots) :
                         Satisfies(availableSlots[k], requested)}
          IN IF sat = {}
             THEN /\ outcomes'[idx] = "noMatch"
                  /\ writes' = writes
                  /\ failedSlots' = Append(failedSlots, requested)
             ELSE \E k \in sat :
                    /\ \A j \in sat : k <= j
                    /\ outcomes'[idx] \in {"booked", "writeFailed"}
                    /\ Len(writes') = Len(writes) + 1
                    /\ writes'[Len(writes')].startTime = availableSlots[k].startTime
                    /\ writes'[Len(writes')].endTime = availableSlots[k].endTime
                    /\ outcomes'[idx] = "booked"
                         => bookedSlots' = Append(bookedSlots, availableSlots[k])
      ]_vars

\* C11 witness: one run booked a slot named by its weekday in lower case
\* ("monday") and a slot named by its date ("2025-06-08"), neither the first
\* slot of the pool.
C11_Witness ==
    /\ pc = "Done"
    /\ Len(outcomes) = 2
    /\ outcomes[1] = "booked" /\ outcomes[2] = "booked"
    /\ {requestedSlots[1].day, requestedSlots[2].day} = {"monday", "2025-06-08"}
    /\ \A i \in 1..2 : bookedSlots[i] # FilteredSlots[1]

\* The requests processed so far for which the match returned a slot.
Matched == {i \in 1..Len(outcomes) : outcomes[i] # "noMatch"}

\* C12: in BookingFlow the number of createEvent calls equals the number of
\* requests for which the match returned a slot: one call per matched
\* request, whether it succeeds or fails, and none for an unmatched request;
\* the successful calls are the booked slots.
C12_OneWritePerMatchedRequest ==
    /\ Len(writes) = Cardinality(Matched)
    /\ Cardinality({i \in 1..Len(writes) : writes[i].ok}) = Len(bookedSlots)
    /\ Len(writes) <= Len(requestedSlots)

\* C12 witness: a finished run with two requests, one matched whose write
\* failed and one unmatched: one call.
C12_Witness ==
    /\ pc = "Done"
    /\ Len(outcomes) = 2
    /\ \E i, j \in 1..2 : outcomes[i] = "writeFailed" /\ outcomes[j] = "noMatch"
    /\ Len(writes) = 1

\* C13: one run of either flow calls getEventsForDateRange at most once,
\* however many slots were generated and however many requests are processed;
\* the calendar is not read again between two commits of the booking loop.
C13_AtMostOneCalendarRead ==
    /\ reads <= 1
    /\ reads = 1 <=> readState # "none"
    /\ pc = "BkLoop" => reads = (IF Len(allSlots) > 0 THEN 1 ELSE 0)

\* C13 witness: a finished BookingFlow run over three or more slots that
\* committed two requests and read the calendar once.
C13_Witness ==
    /\ pc = "Done"
    /\ Len(allSlots) >= 3
    /\ Len(writes) = 2
    /\ writes[1].ok /\ writes[2].ok
    /\ reads = 1

\* C14: on every execution path of handleAppointmentEmail at most one reply
\* message is handed to the mail sender, whatever the intent, the number of
\* requests and the failures met.
C14_AtMostOneReply ==
    Len(replies) <= 1

\* C14 witness: a finished run that booked one request, failed another and
\* sent one reply for both.
C14_Witness ==
    /\ pc = "Done"
    /\ Len(bookedSlots) = 1
    /\ Len(failedSlots) = 1
    /\ Len(replies) = 1

\* The generated slots whose start instant no committed booking has.
NotYetBooked ==
    SelectSeq(allSlots,
              LAMBDA s : \A i \in 1..Len(bookedSlots) :
                            bookedSlots[i].startTime # s.startTime)

\* C15: a failed calendar read does not end either flow.  AvailabilityFlow
\* goes on to send the table of all generated slots.  BookingFlow goes on to
\* the loop with all generated slots as the pool, matches and books against
\* them, and ends with a reply; the only runs with a failed read that end
\* without a reply are those a later throw of the match ended.
C15_CalendarReadFailureIsNotFatal ==
    /\ (readState = "failed" /\ intent = "AVAILABILITY_REQUEST") =>
          /\ pc = "Done" /\ exit = "completed"
          /\ availableSlots = allSlots
          /\ Len(replies) = 1
          /\ replies[1].kind = "Availability"
          /\ replies[1].table = formatAvailabilityTable(allSlots)
    /\ (readState = "failed" /\ intent = "BOOKING_CONFIRMATION") =>
          /\ pc \in {"BkLoop", "Done"}
          /\ availableSlots = NotYetBooked
          /\ pc = "Done" =>
                \/ exit = "completed" /\ Len(replies) = 1
                                      /\ Len(outcomes) = Len(requestedSlots)
                \/ exit = "caught" /\ Len(replies) = 0
                                   /\ findMatchingSlotThrows(requestedSlots[idx])

\* C15 witness: the read failed while the calendar held an event over the
\* slot Monday 10:00-11:00; the slot stayed in the pool, was matched and
\* booked, and the confirmation was sent.
C15_Witness ==
    /\ pc = "Done"
    /\ readState = "failed"
    /\ \E e \in calAtRead : onCalendar(e.start) = At(7, 10, 0)
    /\ Len(bookedSlots) = 1
    /\ bookedSlots[1].startTime = At(7, 10, 0)
    /\ Len(replies) = 1
    /\ replies[1].kind = "Confirmation"

\* C16: when readAvailability returns no entry for the doctor,
\* AvailabilityFlow sends the "no availability information" reply and stops:
\* no slot is generated, the calendar is neither read nor written.
C16_EmptyAvailabilityRepliesNotConfigured ==
    (intent = "AVAILABILITY_REQUEST" /\ pc # "AvailabilityFlow"
     /\ Len(availability) = 0) =>
        /\ pc = "Done" /\ exit = "completed"
        /\ Len(replies) = 1
        /\ replies[1].kind = "NotConfigured"
        /\ replies[1].table = NoTable
        /\ allSlots = <<>>
        /\ reads = 0 /\ readState = "none"
        /\ writes = <<>>

\* C16 witness: the reply was sent for an empty read while the calendar held
\* two events.
C16_Witness ==
    /\ pc = "Done"
    /\ intent = "AVAILABILITY_REQUEST"
    /\ Len(availability) = 0
    /\ Len(replies) = 1
    /\ replies[1].kind = "NotConfigured"
    /\ Cardinality(calendar) = 2

\* C17: the reply sent after the booking loop is determined by the two
\* lists.  With a booked slot it is the confirmation, it lists the booked
\* slots, all of them and in booking order, and it has the note, with the
\* number of failed requests, exactly when a request failed.  With no booked
\* slot it is the apology with the availability table of the filtered slot
\* set (all generated slots when the calendar read failed or was not made).
C17_ReplyDeterminedByOutcome ==
    (pc = "Done" /\ exit = "completed" /\ Len(requestedSlots) > 0) =>
        /\ Len(replies) = 1
        /\ IF bookedSlots # <<>>
           THEN /\ replies[1].kind = "Confirmation"
                /\ replies[1].booked = bookedSlots
                /\ replies[1].table = NoTable
                /\ failedSlots # <<>> => replies[1].note = << Len(failedSlots) >>
                /\ failedSlots = <<>> => replies[1].note = <<>>
           ELSE /\ replies[1].kind = "Apology"
                /\ replies[1].booked = <<>>
                /\ replies[1].note = <<>>
                /\ replies[1].table = formatAvailabilityTable(FilteredSlots)

\* C17 witness: a confirmation for two booked slots without a note.
C17_Witness ==
    /\ pc = "Done"
    /\ Len(replies) = 1
    /\ replies[1].kind = "Confirmation"
    /\ Len(replies[1].booked) = 2
    /\ replies[1].note = <<>>

\* C18: when extractBookingSlots gives no request (no API key, a failed call
\* or an empty answer), BookingFlow sends the reply that asks for a specific
\* day and time and stops: readAvailability is not called, no slot is
\* generated, the calendar is neither read nor written, and nothing is booked
\* or failed.
C18_NoRequestsRepliesRestate ==
    (intent = "BOOKING_CONFIRMATION" /\ pc # "BookingFlow"
     /\ requestedSlots = <<>>) =>
        /\ pc = "Done" /\ exit = "completed"
        /\ Len(replies) = 1
        /\ replies[1].kind = "Restate"
        /\ csvReads = 0 /\ allSlots = <<>>
        /\ reads = 0 /\ readState = "none"
        /\ writes = <<>>
        /\ bookedSlots = <<>> /\ failedSlots = <<>>

\* C18 witness: the reply was sent for an extraction that gave nothing while
\* the calendar held two events.
C18_Witness ==
    /\ pc = "Done"
    /\ intent = "BOOKING_CONFIRMATION"
    /\ requestedSlots = <<>>
    /\ Len(replies) = 1
    /\ replies[1].kind = "Restate"
    /\ Cardinality(calendar) = 2

\* C19: when the model call of the intent classifier fails (it throws, a
\* timeout included), the run sends one reply, which asks the sender for
\* clarification, and no result of AvailabilityFlow or BookingFlow.
C19_ClassifierFailureAsksForClarification ==
    (aiAnswer = "throw" /\ pc = "Done") =>
        /\ Len(replies) = 1
        /\ replies[1].kind = "Clarification"
        /\ csvReads = 0 /\ reads = 0

\* C19 as amended: when the model call of the intent classifier fails, the
\* intent is AVAILABILITY_REQUEST and AvailabilityFlow runs: BookingFlow does
\* not run, nothing is written to the calendar, and every reply of the run is
\* a reply of AvailabilityFlow (nothing configured, no remaining slot, or the
\* availability table).
C19_ClassifierFailureRunsAvailabilityFlow ==
    aiAnswer = "throw" =>
        /\ intent = "AVAILABILITY_REQUEST"
        /\ pc \in {"AvailabilityFlow", "AvCalendar", "Done"}
        /\ requestedSlots = <<>> /\ writes = <<>>
        /\ \A r \in 1..Len(replies) :
             replies[r].kind \in {"NotConfigured", "NoRemainingSlots", "Availability"}
        /\ (pc = "Done" /\ exit = "completed") => Len(replies) = 1

\* C19 witness: the classifier failed and the sender got the availability
\* table.
C19_Witness ==
    /\ aiAnswer = "throw"
    /\ pc = "Done"
    /\ Len(replies) = 1
    /\ replies[1].kind = "Availability"
    /\ replies[1].table.kind = "Table"

\* The data lines of csv that readAvailability is to return for doctorName:
\* four fields or more, and the doctor's name whatever the case of its
\* letters.
Kept ==
    {i \in 1..Len(csv.rows) :
        /\ csv.rows[i].n >= 4
        /\ toLowerCase(csv.rows[i].doctor) = toLowerCase(doctorName)}

\* C20 (under SpecRead): readAvailability(doctorName) returns and does not
\* throw; from a file it can read it returns the first four fields of exactly
\* the data lines with four or more fields whose doctor is doctorName
\* whatever the case, in the order of the file, the other doctors' lines and
\* the shorter lines left out; it returns the empty list when the file is
\* absent, cannot be read, or has the header alone.
C20_ReadReturnsDoctorsRowsInOrder ==
    pc = "Done" =>
        /\ exit = "completed"
        /\ Len(availability) = Cardinality(Kept)
        /\ \A n \in 1..Len(availability) :
             LET i == CHOOSE k \in Kept : Cardinality({j \in Kept : j <= k}) = n
             IN /\ availability[n].doctor = csv.rows[i].doctor
                /\ availability[n].day = csv.rows[i].day
                /\ availability[n].start = csv.rows[i].start
                /\ availability[n].end = csv.rows[i].end
        /\ (~csv.present \/ ~csv.readable \/ csv.rows = <<>>) => availability = <<>>

\* C20 witness: a file of two lines for the doctor, written "dr rishabh" and
\* "DR RISHABH", read for "Dr Rishabh": both returned, in file order.
C20_Witness ==
    /\ pc = "Done"
    /\ doctorName = "Dr Rishabh"
    /\ Len(csv.rows) = 2
    /\ csv.rows[1].doctor = "dr rishabh"
    /\ csv.rows[2].doctor = "DR RISHABH"
    /\ Len(availability) = 2
    /\ availability[1].doctor = "dr rishabh"

\* Local midnight of the Monday that begins the week now is in.
WeekStart == (DayOf(now) - (DayOf(now) % 7)) * MinutesPerDay

\* The window has no whole hour left that starts after now.
Elapsed(w) == Len(Tiles(w)) = 0

\* C21: every slot generateSlots returns starts inside the Monday-to-Sunday
\* week that contains now, whichever weekday now is (Sunday included); when
\* every window has elapsed it returns no slot, and a window that has elapsed
\* contributes no slot of this week or the next: every slot starts in a
\* window that has not elapsed.
C21_SlotsInsideCurrentWeek ==
    /\ \A i \in 1..Len(allSlots) :
         /\ WeekStart <= allSlots[i].startTime
         /\ allSlots[i].startTime < WeekStart + 7 * MinutesPerDay
    /\ (SlotsGenerated /\ WindowsWellFormed) =>
         /\ (\A k \in 1..Len(Windows) : Elapsed(Windows[k])) => allSlots = <<>>
         /\ \A i \in 1..Len(allSlots) :
              \E k \in 1..Len(Windows) :
                 /\ ~Elapsed(Windows[k])
                 /\ WindowStart(Windows[k]) <= allSlots[i].startTime
                 /\ allSlots[i].startTime < WindowEnd(Windows[k])

\* C21 witness: now is Sunday 21:00; the Monday window has elapsed and gave
\* no slot, the Sunday window gave slots of this Sunday.
C21_Witness ==
    /\ now = At(13, 21, 0)
    /\ SlotsGenerated
    /\ Len(Windows) = 2
    /\ \E k \in 1..2 : Windows[k].day = "Monday" /\ WindowsWellFormed
                        /\ Elapsed(Windows[k])
    /\ Len(allSlots) > 0
    /\ \A i \in 1..Len(allSlots) : DayOf(allSlots[i].startTime) = 13

\* The requests processed so far that were booked, and those that failed.
BookedIdx == {i \in 1..Len(outcomes) : outcomes[i] = "booked"}
FailedIdx == {i \in 1..Len(outcomes) : outcomes[i] \in {"noMatch", "writeFailed"}}

\* The n-th smallest element of a set of numbers.
Nth(S, n) == CHOOSE i \in S : Cardinality({j \in S : j <= i}) = n

\* C22: BookingFlow processes the requests one at a time in request order.
\* While the loop is at request idx, exactly the requests before idx have an
\* outcome and the pool already lacks every slot booked for them, so the
\* match for request idx sees all earlier removals; bookedSlots and
\* failedSlots list their entries in request order; and the createEvent
\* calls were made in request order, one per matched request.
C22_RequestsProcessedInOrder ==
    /\ pc = "BkLoop" => Len(outcomes) = idx - 1
    /\ pc = "BkLoop" =>
         \A k \in 1..Len(availableSlots) : \A b \in 1..Len(bookedSlots) :
            availableSlots[k].startTime # bookedSlots[b].startTime
    /\ Len(bookedSlots) = Cardinality(BookedIdx)
    /\ \A n \in 1..Len(bookedSlots) :
         Satisfies(bookedSlots[n], requestedSlots[Nth(BookedIdx, n)])
    /\ Len(failedSlots) = Cardinality(FailedIdx)
    /\ \A n \in 1..Len(failedSlots) :
         failedSlots[n] = requestedSlots[Nth(FailedIdx, n)]
    /\ \A n \in 1..Len(writes) :
         \E slot \in {FilteredSlots[k] : k \in 1..Len(FilteredSlots)} :
            /\ slot.startTime = writes[n].startTime
            /\ Satisfies(slot, requestedSlots[Nth(Matched, n)])

\* C22 witness: two different requests, both booked; the first booked slot
\* is the first request's and not the second's.
C22_Witness ==
    /\ pc = "Done"
    /\ outcomes = << "booked", "booked" >>
    /\ requestedSlots[1] # requestedSlots[2]
    /\ Satisfies(bookedSlots[1], requestedSlots[1])
    /\ ~Satisfies(bookedSlots[1], requestedSlots[2])
    /\ Satisfies(bookedSlots[2], requestedSlots[2])

\* C23: every successful createEvent call of a BookingFlow run is reported
\* to the requester: when the run has ended, also after a fault raised while
\* a later request was processed, a confirmation reply was sent that lists a
\* slot with the start and end of each committed write.
C23_CommittedWritesReported ==
    pc = "Done" =>
        \A n \in 1..Len(writes) :
            writes[n].ok =>
                \E r \in 1..Len(replies) :
                    /\ replies[r].kind = "Confirmation"
                    /\ \E b \in 1..Len(replies[r].booked) :
                          /\ replies[r].booked[b].startTime = writes[n].startTime
                          /\ replies[r].booked[b].endTime = writes[n].endTime

\* C24 (under SpecConcurrent): nothing in an invocation prevents a double
\* booking across concurrent messages.  Whenever the loop of an invocation
\* is at a request that a slot of its own pool satisfies, it calls
\* createEvent for that slot, whatever the calendar holds at that moment: the
\* pool is what the one read before the loop left, less the invocation's own
\* bookings, and the calendar is not looked at again.
C24_CommitIgnoresCurrentCalendar ==
    [][ \A f \in Senders :
          (flows[f].pc = "BkLoop" /\ flows'[f].idx = flows[f].idx + 1) =>
             LET requested == flows[f].requestedSlots[flows[f].idx]
                 pool == flows[f].availableSlots
                 sat == {k \in 1..Len(pool) : Satisfies(pool[k], requested)}
             IN sat # {} =>
                  /\ Len(flows'[f].writes) = Len(flows[f].writes) + 1
                  /\ \E k \in sat :
                        flows'[f].writes[Len(flows'[f].writes)].startTime
                            = pool[k].startTime
      ]_vars

\* C24 witness: both invocations read the calendar before either commits,
\* each committed Monday 10:00-11:00, each sent its confirmation, and the
\* calendar holds both events.
C24_Witness ==
    /\ \A f \in Senders :
         /\ flows[f].pc = "Done"
         /\ flows[f].readState = "ok"
         /\ Len(flows[f].allSlots) = Len(flows[f].availableSlots) + 1
         /\ Len(flows[f].writes) = 1
         /\ flows[f].writes[1].ok
         /\ flows[f].writes[1].startTime = At(7, 10, 0)
         /\ Len(flows[f].replies) = 1
         /\ flows[f].replies[1].kind = "Confirmation"
         /\ createdEventFor(flows[f].bookedSlots[1], f) \in calendar

\* C25: every generated slot lasts one hour and lies inside a window of the
\* availability on that window's date: it starts at or after the window's
\* start and ends at or before the window's end, also for a window that ends
\* in the 23:00 hour.
C25_SlotsInsideTheirWindow ==
    (SlotsGenerated /\ WindowsWellFormed) =>
        \A i \in 1..Len(allSlots) :
            /\ allSlots[i].endTime = allSlots[i].startTime + MinutesPerHour
            /\ \E k \in 1..Len(Windows) :
                  /\ Windows[k].day = allSlots[i].day
                  /\ WindowStart(Windows[k]) <= allSlots[i].startTime
                  /\ allSlots[i].endTime <= WindowEnd(Windows[k])

\* q is p with some elements left out, the order kept.
RECURSIVE IsSubSeq(_, _)
IsSubSeq(q, p) ==
    IF q = <<>> THEN TRUE
    ELSE IF p = <<>> THEN FALSE
    ELSE IF Head(q) = Head(p) THEN IsSubSeq(Tail(q), Tail(p))
    ELSE IsSubSeq(q, Tail(p))

\* C26: in the booking loop the pool changes only on a successful commit.
\* An iteration that finds no match or whose write fails leaves the pool as
\* it was; an iteration that commits removes from the pool the slots that
\* start at the booked slot's start instant and no other; and after every
\* step of BookingFlow the pool is part of the filtered slot set and holds no
\* slot that starts when a booked slot starts.
C26_PoolChangesOnlyOnCommit ==
    [][ /\ (pc = "BkLoop" /\ idx' = idx + 1) =>
             IF outcomes'[idx] = "booked"
             THEN LET booked == bookedSlots'[Len(bookedSlots')]
                  IN /\ IsSubSeq(availableSlots', availableSlots)
                     /\ \A k \in 1..Len(availableSlots) :
                          (availableSlots[k].startTime # booked.startTime)
                            <=> (\E m \in 1..Len(availableSlots') :
                                    availableSlots'[m] = availableSlots[k])
             ELSE availableSlots' = availableSlots
        /\ (intent' = "BOOKING_CONFIRMATION" /\ pc' \in {"BkLoop", "Done"}) =>
             /\ IsSubSeq(availableSlots', FilteredSlots')
             /\ \A k \in 1..Len(availableSlots') : \A b \in 1..Len(bookedSlots') :
                  availableSlots'[k].startTime # bookedSlots'[b].startTime
      ]_vars

\* C26 witness: a failed write left the pool whole, the next request booked
\* one slot, and the pool is the filtered set less that slot.
C26_Witness ==
    /\ pc = "Done"
    /\ outcomes = << "writeFailed", "booked" >>
    /\ Len(FilteredSlots) >= 3
    /\ Len(availableSlots) = Len(FilteredSlots) - 1
    /\ writes[1].startTime # writes[2].startTime

\* C27: within one BookingFlow run the intervals of the committed bookings
\* are pairwise non-overlapping, whatever the availability windows (windows
\* of one day that overlap or start at different minutes included) and
\* whatever the requests.
C27_BookingsDoNotOverlap ==
    \A i, j \in 1..Len(bookedSlots) :
        i # j => ~(bookedSlots[i].startTime < bookedSlots[j].endTime
                   /\ bookedSlots[j].startTime < bookedSlots[i].endTime)

\* C28: in both flows the calendar is queried for the range from the first
\* generated slot's start to the last generated slot's end plus one day, and
\* that range contains the interval of every generated slot, whatever the
\* order of the availability rows.
C28_ReadRangeCoversAllSlots ==
    reads > 0 =>
        /\ readRange = << allSlots[1].startTime,
                          allSlots[Len(allSlots)].endTime + MinutesPerDay >>
        /\ \A i \in 1..Len(allSlots) :
             /\ readRange[1] <= allSlots[i].startTime
             /\ allSlots[i].endTime <= readRange[2]

\* C29: when AvailabilityFlow read entries for the doctor and generateSlots
\* returned no slot, the flow sends the "no remaining available slots" reply
\* and stops: the calendar is neither read nor written.
C29_NoSlotsRepliesNoRemaining ==
    (intent = "AVAILABILITY_REQUEST" /\ pc \in {"AvCalendar", "Done"}
     /\ Len(availability) > 0 /\ exit # ExitAfterThrow /\ allSlots = <<>>) =>
        /\ pc = "Done" /\ exit = "completed"
        /\ Len(replies) = 1
        /\ replies[1].kind = "NoRemainingSlots"
        /\ replies[1].table = NoTable
        /\ reads = 0 /\ readState = "none"
        /\ writes = <<>>

\* C29 witness: now is Sunday 21:00, the only window is Monday's, the
\* calendar holds events, and the reply was sent.
C29_Witness ==
    /\ pc = "Done"
    /\ intent = "AVAILABILITY_REQUEST"
    /\ now = At(13, 21, 0)
    /\ Len(availability) = 1
    /\ availability[1].day = "Monday"
    /\ WindowsWellFormed
    /\ Len(replies) = 1
    /\ replies[1].kind = "NoRemainingSlots"
    /\ calendar # {}

AvailabilityPcs == {"AvailabilityFlow", "AvCalendar"}

BookingPcs == {"BookingFlow", "BkPrepare", "BkLoop"}

\* C30: the classifier is called once, in the first step, and its answer
\* selects the one flow that runs: AVAILABILITY_REQUEST enters the
\* availability flow, BOOKING_CONFIRMATION the booking flow; afterwards the
\* intent is never computed again, control stays inside the flow entered until
\* the call ends, and a call in the availability flow extracts no request and
\* writes no event.
C30_OneClassificationOneFlow ==
    [][ /\ pc = "Idle" =>
             /\ intent = Null
             /\ intent' \in {"AVAILABILITY_REQUEST", "BOOKING_CONFIRMATION"}
             /\ pc' = IF intent' = "AVAILABILITY_REQUEST"
                      THEN "AvailabilityFlow" ELSE "BookingFlow"
        /\ pc # "Idle" =>
             /\ intent' = intent
             /\ aiAnswer' = aiAnswer
             /\ pc' # "Idle"
        /\ pc \in AvailabilityPcs =>
             /\ intent = "AVAILABILITY_REQUEST"
             /\ pc' \in AvailabilityPcs \cup {"Done"}
             /\ UNCHANGED <<requestedSlots, writes, calendar, outcomes>>
        /\ pc \in BookingPcs =>
             /\ intent = "BOOKING_CONFIRMATION"
             /\ pc' \in BookingPcs \cup {"Done"}
      ]_vars

\* C30 witness: a message classified BOOKING_CONFIRMATION went through the
\* booking flow alone: one availability read, one calendar read, a committed
\* event and the confirmation.
C30_Witness ==
    /\ pc = "Done"
    /\ exit = "completed"
    /\ intent = "BOOKING_CONFIRMATION"
    /\ aiAnswer = "BOOKING_CONFIRMATION"
    /\ csvReads = 1
    /\ reads = 1
    /\ Len(writes) = 1
    /\ Len(replies) = 1
    /\ replies[1].kind = "Confirmation"

Intents == {"AVAILABILITY_REQUEST", "BOOKING_CONFIRMATION"}

\* C31: once the classifier has returned, the intent is AVAILABILITY_REQUEST
\* or BOOKING_CONFIRMATION: the model's answer when it is one of the two, and
\* AVAILABILITY_REQUEST for any other answer, a missing API key or a failed
\* call.  The unknown-intent branch of handleAppointmentEmail, which ends the
\* call normally with no flow run and no reply, is never taken.
C31_IntentIsOneOfTwo ==
    /\ pc = "Idle" => intent = Null
    /\ pc # "Idle" =>
         /\ intent \in Intents
         /\ intent = IF aiAnswer \in Intents THEN aiAnswer
                     ELSE "AVAILABILITY_REQUEST"
    /\ ~ (pc = "Done" /\ exit = "completed" /\ csvReads = 0
          /\ requestedSlots = <<>> /\ replies = <<>>)

\* C31 witness: the model answered with a text that is neither intent and the
\* availability flow ran to its reply.
C31_Witness ==
    /\ pc = "Done"
    /\ aiAnswer = "SOMETHING ELSE"
    /\ intent = "AVAILABILITY_REQUEST"
    /\ csvReads = 1
    /\ Len(replies) = 1
    /\ replies[1].kind = "Availability"

\* C32: no step of the availability flow changes the calendar or calls
\* createEvent; the calendar changes and createEvent is called only in an
\* iteration of the booking loop whose request matched a slot of the pool, and
\* then by that slot's event alone.
C32_OnlyMatchedBookingWrites ==
    [][ /\ (pc \in AvailabilityPcs \/ intent = "AVAILABILITY_REQUEST") =>
             UNCHANGED <<calendar, writes>>
        /\ (calendar' # calendar \/ writes' # writes) =>
             /\ intent = "BOOKING_CONFIRMATION"
             /\ pc = "BkLoop"
             /\ idx <= Len(requestedSlots)
             /\ ~ findMatchingSlotThrows(requestedSlots[idx])
             /\ LET m == findMatchingSlot(availableSlots, requestedSlots[idx].day,
                                          requestedSlots[idx].time)
                IN /\ m # NullSlot
                   /\ m \in {availableSlots[i] : i \in 1..Len(availableSlots)}
                   /\ Len(writes') = Len(writes) + 1
                   /\ writes'[Len(writes')].startTime = m.startTime
                   /\ calendar' \in {calendar, calendar \cup {createdEvent(m)}}
      ]_vars

\* C32 witness: the availability flow read a calendar that holds events, sent
\* the table and ended; the calendar is the one it read and nothing was
\* written.
C32_Witness ==
    /\ pc = "Done"
    /\ exit = "completed"
    /\ intent = "AVAILABILITY_REQUEST"
    /\ readState = "ok"
    /\ calendar # {}
    /\ calendar = calAtRead
    /\ writes = <<>>
    /\ Len(replies) = 1
    /\ replies[1].kind = "Availability"

Committed == {w \in 1..Len(writes) : writes[w].ok}

\* C33: a reply whose send failed is still the one reply of the call and the
\* last thing the flow did: the call ended normally (nothing was raised), the
\* reply is the one the flow's outcome calls for, and every event committed
\* before it is on the calendar and listed in the reply.
C33_FailedSendChangesNothing ==
    \A r \in 1..Len(replies) :
        ~ replies[r].sent =>
            /\ r = 1 /\ Len(replies) = 1
            /\ pc = "Done" /\ exit = "completed"
            /\ (replies[r].kind = "Confirmation") = (Len(bookedSlots) > 0)
            /\ replies[r].booked = bookedSlots
            /\ Len(bookedSlots) = Cardinality(Committed)
            /\ \A w \in Committed :
                 \E e \in calendar :
                    /\ e.start = [kind |-> "dateTime", v |-> writes[w].startTime]
                    /\ e.end = [kind |-> "dateTime", v |-> writes[w].endTime]

\* C33 witness: an event was committed, the confirmation could not be sent,
\* and the call ended normally with the event on the calendar.
C33_Witness ==
    /\ pc = "Done"
    /\ exit = "completed"
    /\ Len(replies) = 1
    /\ ~ replies[1].sent
    /\ replies[1].kind = "Confirmation"
    /\ Len(bookedSlots) = 1
    /\ createdEvent(bookedSlots[1]) \in calendar

\* The local calendar date of the day a slot starts on.
LocalDate(slot) == ISODates[DayOf(slot.startTime)]

\* C34 (under SpecDates): the date of every generated slot is the local
\* calendar date of the day of the current week that the slot's weekday maps
\* to, which is the day the slot starts on; so a request that names a date
\* and a time matches a slot exactly when a slot of the pool starts at that
\* time on that local date, and the slot found is such a slot.
C34_SlotDateIsLocalDate ==
    /\ pc \in {"Match", "Done"} =>
         \A i \in 1..Len(allSlots) :
            /\ DayOf(allSlots[i].startTime) = WindowDate(allSlots[i])
            /\ allSlots[i].date = LocalDate(allSlots[i])
    /\ pc = "Done" =>
         LET requested == requestedSlots[1]
             named == {i \in 1..Len(availableSlots) :
                         /\ LocalDate(availableSlots[i]) = requested.day
                         /\ getHours(availableSlots[i].startTime)
                              = parseTime(requested.time).hours
                         /\ getMinutes(availableSlots[i].startTime)
                              = parseTime(requested.time).minutes}
         IN /\ (bookedSlots # <<>>) = (named # {})
            /\ bookedSlots # <<>> =>
                 \E i \in named : bookedSlots[1] = availableSlots[i]

\* The position at which a day first appears in a sequence of slots.
FirstOf(day, slots) ==
    CHOOSE i \in 1..Len(slots) :
        /\ slots[i].day = day
        /\ \A j \in 1..(i - 1) : slots[j].day # day

RECURSIVE TotalLen(_)
TotalLen(groups) ==
    IF groups = <<>> THEN 0 ELSE Len(Head(groups)) + TotalLen(Tail(groups))

\* C35: the table of a reply (the availability reply, or the apology of the
\* booking flow) is made from the pool the flow holds.  An empty pool gives the
\* "no available slots" text.  Otherwise every slot of the pool is listed
\* once: the groups hold as many slots as the pool, each group holds the slots
\* of one weekday in the order they have in the pool, no weekday has two
\* groups, and the groups are in the order in which their weekdays first
\* appear in the pool.
C35_TableListsPoolGroupedByDay ==
    \A r \in 1..Len(replies) :
        replies[r].kind \in {"Availability", "Apology"} =>
            LET table == replies[r].table
                g == table.groups
            IN IF availableSlots = <<>>
               THEN table.kind = "NoSlotsText" /\ g = <<>>
               ELSE /\ table.kind = "Table"
                    /\ TotalLen(g) = Len(availableSlots)
                    /\ \A i \in 1..Len(availableSlots) : availableSlots[i] \in TableSlots(table)
                    /\ \A i \in 1..Len(g) :
                         /\ Len(g[i]) > 0
                         /\ \A j \in 1..Len(g[i]) : g[i][j].day = g[i][1].day
                         /\ IsSubSeq(g[i], availableSlots)
                    /\ \A i, j \in 1..Len(g) :
                         i < j => /\ g[i][1].day # g[j][1].day
                                  /\ FirstOf(g[i][1].day, availableSlots)
                                       < FirstOf(g[j][1].day, availableSlots)

\* C35 witness: the availability reply lists Sunday's slot before Monday's
\* slots, as the rows were given, with Monday's slots in one group.
C35_Witness ==
    /\ pc = "Done"
    /\ Len(replies) = 1
    /\ replies[1].kind = "Availability"
    /\ replies[1].table.kind = "Table"
    /\ Len(replies[1].table.groups) = 2
    /\ replies[1].table.groups[1][1].day = "Sunday"
    /\ replies[1].table.groups[2][1].day = "Monday"
    /\ Len(replies[1].table.groups[2]) >= 2

\* Whether two sequences agree wherever both have an element.
AgreeOnCommon(p, q) ==
    \A i \in 1..Len(p) : i <= Len(q) => p[i] = q[i]

\* The results the collaborators gave an invocation: the calendar read, each
\* createEvent call in turn, the send.
WriteResults(flow) == [i \in 1..Len(flow.writes) |-> flow.writes[i].ok]
SendResults(flow) == [i \in 1..Len(flow.replies) |-> flow.replies[i].sent]

SameInputs ==
    /\ Len(history) = 2
    /\ history[1] = history[2]
    /\ flows["sender-1"].requestedSlots = flows["sender-2"].requestedSlots
    /\ flows["sender-1"].readState = flows["sender-2"].readState
    /\ AgreeOnCommon(WriteResults(flows["sender-1"]), WriteResults(flows["sender-2"]))
    /\ AgreeOnCommon(WriteResults(flows["sender-2"]), WriteResults(flows["sender-1"]))
    /\ AgreeOnCommon(SendResults(flows["sender-1"]), SendResults(flows["sender-2"]))
    /\ AgreeOnCommon(SendResults(flows["sender-2"]), SendResults(flows["sender-1"]))

RECURSIVE ProcessedOf(_, _)
ProcessedOf(uids, hows) ==
    IF uids = <<>> \/ hows = <<>> THEN <<>>
    ELSE (IF Head(hows) = "processed" THEN << emailOf(Head(uids)) >> ELSE <<>>)
         \o ProcessedOf(Tail(uids), Tail(hows))

\* C37 (under SpecFetch): the unseen messages are handled one at a time in
\* the order of the search result, a failure of fetchOne or processEmail for
\* one message is counted and the next message is handled; when the loop has
\* returned, every message was handled, count + errors is the number of
\* unseen messages, count is the number of emails, and emails holds the
\* emails of exactly the messages that were processed, in order.
C37_EveryUnseenMessageHandled ==
    /\ fetch.pc = "Loop" =>
         /\ Len(fetch.handled) = fetch.i - 1
         /\ fetch.successCount + fetch.errorCount = fetch.i - 1
         /\ fetch.processedEmails = ProcessedOf(fetch.unseen, fetch.handled)
    /\ fetch.path = "completed" =>
         /\ Len(fetch.handled) = Len(fetch.unseen)
         /\ fetch.returned.success
         /\ fetch.returned.count + fetch.returned.errors = Len(fetch.unseen)
         /\ fetch.returned.count = Len(fetch.returned.emails)
         /\ fetch.returned.emails = ProcessedOf(fetch.unseen, fetch.handled)

\* C37 witness: of three unseen messages the first could not be fetched, the
\* second was processed, the third failed in processEmail; the call returned
\* count 1 and errors 2.
C37_Witness ==
    /\ fetch.pc = "Returned"
    /\ fetch.path = "completed"
    /\ fetch.handled = << "fetchFailed", "processed", "processFailed" >>
    /\ fetch.delivered.count = 1
    /\ fetch.delivered.errors = 2
    /\ fetch.delivered.emails = << emailOf(fetch.unseen[2]) >>

\* C38 (under SpecFetch): logout is called at most once, never before the
\* finally block; when the call has returned, logout was called once if the
\* client had been created (whether the call found nothing, completed, or
\* failed in connect or search) and not at all otherwise, and the caller got
\* the value of the executed return statement whether or not logout failed.
C38_LogoutOnceOnEveryPath ==
    /\ fetch.logouts <= 1
    /\ fetch.pc \in {"Open", "Search", "Loop", "Finally"} => fetch.logouts = 0
    /\ fetch.pc = "Returned" =>
         /\ fetch.logouts = IF fetch.client THEN 1 ELSE 0
         /\ fetch.client = (fetch.path # "noCredentials")
         /\ fetch.delivered = fetch.returned
         /\ fetch.delivered.success = (fetch.path \in {"empty", "completed"})

\* C38 witness: the search threw, logout was called once and failed, and the
\* caller got the failure value of the catch block.
C38_Witness ==
    /\ fetch.pc = "Returned"
    /\ fetch.path = "searchError"
    /\ fetch.logouts = 1
    /\ fetch.logoutFailed
    /\ fetch.delivered = FetchFailure

====
